---------------------------- MODULE Spec2Model ----------------------------
(***************************************************************************)
(* Model of the multi-source component reconciliation engine of            *)
(* pdf-parser-api: the material equivalence classifier                     *)
(* (hybrid_compare.py), the spreadsheet records, validation gate, name     *)
(* matcher and merge (excel_parser.py) and the parse-pdf request handler   *)
(* (api.py).                                                               *)
(*                                                                         *)
(* Python strings are sequences of one-character strings, so that          *)
(* upper(), strip(), replace() and the regular expressions are computed    *)
(* character by character, as the interpreter computes them.               *)
(***************************************************************************)
EXTENDS Integers, Sequences, FiniteSets, TLC

VARIABLES
    material1,   \* first argument of the classifier call under test
    material2,   \* second argument of the classifier call under test
    call,        \* which classifier function has been called ("none" before)
    ret          \* the value that call returned

classifierVars == <<material1, material2, call, ret>>

VARIABLES
    drawing,            \* the drawing data as extracted, before the merge
    pdf_data,           \* the drawing data object, which the merge updates in place
    bom_components,     \* components mapping of the components sheet
    manager_materials,  \* materials mapping of the manager sheet
    merge_call          \* "merge_all_data" once the merge has run ("none" before)

mergeVars == <<drawing, pdf_data, bom_components, manager_materials, merge_call>>

VARIABLES
    request,          \* the parse-pdf request: uploads, form fields, environment
    pc,               \* the handler's position
    temp_files,       \* the temporary files that exist
    pdf_path,         \* path of the saved PDF, NoPath before
    bom_path,         \* path of the saved components workbook, NoPath if none
    manager_path,     \* path of the saved manager workbook, NoPath if none
    bom_data,         \* result of parse_bom_sheet
    validation,       \* result of validate_bom_with_pdf
    manager_data,     \* result of parse_manager_sheet
    validation_info,  \* the validation part of the response
    response,         \* what the handler returns
    calls             \* the pipeline functions called so far, in order

pipelineVars ==
    <<request, pc, temp_files, pdf_path, bom_path, manager_path, bom_data,
      validation, manager_data, validation_info, response, calls>>

VARIABLES
    function,    \* which function of excel_parser.py is under call
    arguments,   \* the arguments of that call
    outcome      \* what the call returned or raised, <<>> before

functionVars == <<function, arguments, outcome>>

VARIABLES
    synonym_table,  \* the module global MATERIAL_SYNONYMS as it is now
    session         \* the calls made so far in one process, with their results

sessionVars == <<synonym_table, session>>

vars == <<classifierVars, mergeVars, pipelineVars, functionVars, sessionVars>>

-----------------------------------------------------------------------------
(* Python values *)

\* Python's None where a string is expected. Every real character is a
\* one-character string, so no string equals this value.
None == <<"None">>

\* Truth value of an optional string: None and "" are falsy.
Truthy(x) == x # None /\ x # <<>>

LowerLetters ==
    <<"a","b","c","d","e","f","g","h","i","j","k","l","m",
      "n","o","p","q","r","s","t","u","v","w","x","y","z">>

UpperLetters ==
    <<"A","B","C","D","E","F","G","H","I","J","K","L","M",
      "N","O","P","Q","R","S","T","U","V","W","X","Y","Z">>

Digits == {"0","1","2","3","4","5","6","7","8","9"}

Whitespace == {" ", "\t", "\n"}

Range(f) == {f[i] : i \in DOMAIN f}

\* str.upper() on one character
UpperChar(c) ==
    IF \E i \in DOMAIN LowerLetters : LowerLetters[i] = c
    THEN UpperLetters[CHOOSE i \in DOMAIN LowerLetters : LowerLetters[i] = c]
    ELSE c

\* str.lower() on one character
LowerChar(c) ==
    IF \E i \in DOMAIN UpperLetters : UpperLetters[i] = c
    THEN LowerLetters[CHOOSE i \in DOMAIN UpperLetters : UpperLetters[i] = c]
    ELSE c

RECURSIVE upper(_)
upper(s) == IF s = <<>> THEN <<>> ELSE <<UpperChar(Head(s))>> \o upper(Tail(s))

RECURSIVE lower(_)
lower(s) == IF s = <<>> THEN <<>> ELSE <<LowerChar(Head(s))>> \o lower(Tail(s))

RECURSIVE lstrip(_)
lstrip(s) ==
    IF s # <<>> /\ Head(s) \in Whitespace THEN lstrip(Tail(s)) ELSE s

RECURSIVE rstrip(_)
rstrip(s) ==
    IF s # <<>> /\ s[Len(s)] \in Whitespace
    THEN rstrip(SubSeq(s, 1, Len(s) - 1))
    ELSE s

\* str.strip()
strip(s) == rstrip(lstrip(s))

\* s.startswith(p)
StartsWith(s, p) == Len(p) <= Len(s) /\ SubSeq(s, 1, Len(p)) = p

\* str.replace(old, new) for a non-empty old: leftmost, non-overlapping
\* occurrences, the scan resuming after each replaced occurrence.
RECURSIVE replace(_, _, _)
replace(s, old, new) ==
    IF Len(s) < Len(old) THEN s
    ELSE IF StartsWith(s, old)
         THEN new \o replace(SubSeq(s, Len(old) + 1, Len(s)), old, new)
         ELSE <<Head(s)>> \o replace(Tail(s), old, new)

\* re.sub(r"\s+", " ", s)
RECURSIVE collapse_whitespace(_)
collapse_whitespace(s) ==
    IF s = <<>> THEN <<>>
    ELSE IF Head(s) \in Whitespace
         THEN <<" ">> \o collapse_whitespace(lstrip(s))
         ELSE <<Head(s)>> \o collapse_whitespace(Tail(s))

\* x in s for strings: x occurs in s as a contiguous substring
Contains(s, x) ==
    \E i \in 0..(Len(s) - Len(x)) : SubSeq(s, i + 1, i + Len(x)) = x

-----------------------------------------------------------------------------
(* hybrid_compare.py *)

MATERIAL_SYNONYMS ==
  [
    GRAPHITE |-> <<
      <<"G","R","A","P","H","I","T","E">>,
      <<"G","R","A","F">>,
      <<"G","R">>
    >>,
    SS316 |-> <<
      <<"S","S"," ","3","1","6">>,
      <<"S","S"," ","G","R"," ","3","1","6">>,
      <<"S","3","1","6">>,
      <<"S","3","1","6","/","L">>,
      <<"S","3","1","6","L">>,
      <<"S","T","A","I","N","L","E","S","S"," ","S","T","E","E","L"," ","G","R"," ","3","1","6">>,
      <<"F","3","1","6">>,
      <<"F","3","1","6","L">>,
      <<"F","3","1","6","/","L">>,
      <<"F","3","1","6","/","F","3","1","6","L">>
    >>,
    SS304 |-> <<
      <<"S","S"," ","3","0","4">>,
      <<"S","S"," ","G","R"," ","3","0","4">>,
      <<"S","3","0","4">>,
      <<"S","3","0","4","/","L">>
    >>,
    LF2 |-> <<
      <<"L","F","2">>,
      <<"L","F","2","W","6","2">>,
      <<"A","3","5","0"," ","L","F","2">>,
      <<"A","S","T","M"," ","A","3","5","0"," ","L","F","2">>
    >>,
    L7M |-> <<
      <<"L","7","M">>,
      <<"L","7","M","H","D","G">>,
      <<"L","7","M","+","H","D","G">>,
      <<"L","7","M"," ","H","D","G">>,
      <<"A","3","2","0"," ","L","7","M">>,
      <<"A","S","T","M"," ","A","3","2","0"," ","L","7","M">>
    >>,
    XM19 |-> <<
      <<"X","M","1","9">>,
      <<"X","M","1","9","H","R">>,
      <<"X","M","-","1","9">>,
      <<"A","4","7","9"," ","X","M","1","9">>,
      <<"S","2","0","9","1","0">>,
      <<"A","4","7","9"," ","S","2","0","9","1","0">>
    >>,
    A182F316 |-> <<
      <<"A","1","8","2"," ","F","3","1","6">>,
      <<"A","1","8","2"," ","F","3","1","6","L">>,
      <<"A","1","8","2"," ","F","3","1","6","/","F","3","1","6","L">>,
      <<"A","S","T","M"," ","A","1","8","2"," ","F","3","1","6">>
    >>,
    SSBPTFE |-> <<
      <<"S","S"," ","G","R"," ","3","1","6"," ","+"," ","P","T","F","E">>,
      <<"S","S","B","P","T","F","E">>,
      <<"S","S"," ","+"," ","P","T","F","E">>,
      <<"S","S"," ","G","R","3","1","6"," ","+"," ","P","T","F","E">>
    >>,
    SSGRAF |-> <<
      <<"S","S"," ","G","R"," ","3","1","6"," ","+"," ","G","R","A","P","H","I","T","E">>,
      <<"S","S","G","R","A","F">>,
      <<"S","S"," ","+"," ","G","R","A","P","H","I","T","E">>,
      <<"S","S"," ","G","R","3","1","6"," ","+"," ","G","R","A","P","H","I","T","E">>
    >>,
    SOFTIRON |-> <<
      <<"S","O","F","T"," ","I","R","O","N">>,
      <<"S","O","F","T","I","R","O","N">>
    >>,
    PEEK |-> <<
      <<"P","E","E","K">>
    >>,
    ELGILOY |-> <<
      <<"E","L","G","I","L","O","Y">>
    >>
  ]

normalize(text) ==
    IF ~Truthy(text) THEN <<>>
    ELSE LET t1 == strip(upper(text))
             t2 == replace(replace(t1, <<"/">>, <<" ">>), <<"-">>, <<" ">>)
             t3 == replace(replace(t2, <<"G","R",".">>, <<"G","R">>),
                           <<"C","L",".">>, <<"C","L">>)
             t4 == replace(replace(t3, <<"A","S","T","M"," ">>, <<>>),
                           <<"A","S","M","E"," ">>, <<>>)
         IN  strip(collapse_whitespace(t4))

\* [normalize(s) for s in synonyms], for every entry of the table. The table
\* is never written, so the list check_synonyms builds on each call is the
\* same on every call.
normalized_synonyms ==
    [base_name \in DOMAIN MATERIAL_SYNONYMS |->
        {normalize(MATERIAL_SYNONYMS[base_name][i]) :
            i \in DOMAIN MATERIAL_SYNONYMS[base_name]}]

\* check_synonyms looking the second material up among the variants as
\* written instead of the normalized ones
check_synonyms_raw_second(mat1, mat2) ==
    LET norm1 == normalize(mat1)
        norm2 == normalize(mat2)
    IN  \E base_name \in DOMAIN MATERIAL_SYNONYMS :
            /\ norm1 \in normalized_synonyms[base_name]
            /\ norm2 \in Range(MATERIAL_SYNONYMS[base_name])

\* check_synonyms looking both materials up among the variants as written
check_synonyms_written(mat1, mat2) ==
    LET norm1 == normalize(mat1)
        norm2 == normalize(mat2)
    IN  \E base_name \in DOMAIN MATERIAL_SYNONYMS :
            /\ norm1 \in Range(MATERIAL_SYNONYMS[base_name])
            /\ norm2 \in Range(MATERIAL_SYNONYMS[base_name])

\* [normalize(s) for s in synonyms] for every entry of a table
normalized_table(table) ==
    [base_name \in DOMAIN table |->
        {normalize(table[base_name][i]) : i \in DOMAIN table[base_name]}]

\* check_synonyms reads the global table as it is at the call; the
\* normalized variants of the table as written are computed once
check_synonyms(mat1, mat2) ==
    LET norm1 == normalize(mat1)
        norm2 == normalize(mat2)
    IN  \E groups \in {IF synonym_table = MATERIAL_SYNONYMS
                        THEN normalized_synonyms
                        ELSE normalized_table(synonym_table)} :
            \E base_name \in DOMAIN groups :
                /\ norm1 \in groups[base_name]
                /\ norm2 \in groups[base_name]

\* the character class [A-Z0-9]
IsTokenChar(c) == c \in Range(UpperLetters) \cup Digits

\* length of the maximal run of [A-Z0-9] at the start of s
RECURSIVE RunLength(_)
RunLength(s) ==
    IF s # <<>> /\ IsTokenChar(Head(s)) THEN 1 + RunLength(Tail(s)) ELSE 0

\* re.findall(r"[A-Z0-9]+", s): the maximal runs, left to right
RECURSIVE findall_tokens(_)
findall_tokens(s) ==
    IF s = <<>> THEN <<>>
    ELSE IF IsTokenChar(Head(s))
         THEN LET n == RunLength(s)
              IN  <<SubSeq(s, 1, n)>> \o findall_tokens(SubSeq(s, n + 1, Len(s)))
         ELSE findall_tokens(Tail(s))

\* a filter that keeps every token of two characters or more
IsSignificant_any_two(token) == Len(token) >= 2

\* the filter of extract_tokens: a digit and length >= 2, or length >= 3
IsSignificant(token) ==
    LET has_digit == \E i \in DOMAIN token : token[i] \in Digits
    IN  (has_digit /\ Len(token) >= 2) \/ Len(token) >= 3

extract_tokens(text) ==
    IF ~Truthy(text) THEN {}
    ELSE LET tokens == findall_tokens(normalize(text))
         IN  {tokens[i] : i \in {j \in DOMAIN tokens : IsSignificant(tokens[j])}}

check_tokens(mat1, mat2) ==
    LET tokens1 == extract_tokens(mat1)
        tokens2 == extract_tokens(mat2)
        common == tokens1 \cap tokens2
    IN  Cardinality(common) > 0

\* smart_material_match trying the token step before the synonym step
smart_material_match_token_first(m1, m2) ==
    IF ~Truthy(m1) \/ ~Truthy(m2) THEN <<FALSE, "empty">>
    ELSE IF normalize(m1) = normalize(m2) THEN <<TRUE, "exact">>
    ELSE IF check_tokens(m1, m2) THEN <<TRUE, "token">>
    ELSE IF check_synonyms(m1, m2) THEN <<TRUE, "synonym">>
    ELSE <<FALSE, "none">>

\* smart_material_match answering "empty" only when both inputs are empty
smart_material_match_both_empty(m1, m2) ==
    IF ~Truthy(m1) /\ ~Truthy(m2) THEN <<FALSE, "empty">>
    ELSE IF normalize(m1) = normalize(m2) THEN <<TRUE, "exact">>
    ELSE IF check_synonyms(m1, m2) THEN <<TRUE, "synonym">>
    ELSE IF check_tokens(m1, m2) THEN <<TRUE, "token">>
    ELSE <<FALSE, "none">>

smart_material_match(m1, m2) ==
    IF ~Truthy(m1) \/ ~Truthy(m2) THEN <<FALSE, "empty">>
    ELSE IF normalize(m1) = normalize(m2) THEN <<TRUE, "exact">>
    ELSE IF check_synonyms(m1, m2) THEN <<TRUE, "synonym">>
    ELSE IF check_tokens(m1, m2) THEN <<TRUE, "token">>
    ELSE <<FALSE, "none">>

compare_materials(m1, m2) == smart_material_match(m1, m2)[1]

-----------------------------------------------------------------------------
(* Inputs of the classifier calls *)

\* the materials of test_cases (hybrid_compare.py, lines 281-303)
M_GRAPHITE == <<"G","R","A","P","H","I","T","E">>
M_GRAF == <<"G","R","A","F">>
M_A350_LF2_CL1 == <<"A","S","T","M"," ","A","3","5","0"," ","L","F","2"," ","C","L","1">>
M_A350_LF2 == <<"A","3","5","0"," ","L","F","2">>
M_ASTM_A350_LF2 == <<"A","S","T","M"," ","A","3","5","0"," ","L","F","2">>
M_LF2W62 == <<"L","F","2","W","6","2">>
M_LF2 == <<"L","F","2">>
M_A182_F316_F316L == <<"A","S","T","M"," ","A","1","8","2"," ","F","3","1","6","/","F","3","1","6","L">>
M_A182_F316 == <<"A","1","8","2"," ","F","3","1","6">>
M_F316_L == <<"F","3","1","6","/","L">>
M_A479_S20910 == <<"A","S","T","M"," ","A","4","7","9"," ","S","2","0","9","1","0">>
M_A479_XM19 == <<"A","4","7","9"," ","X","M","1","9">>
M_XM19HR == <<"X","M","1","9","H","R">>
M_A320_L7M == <<"A","S","T","M"," ","A","3","2","0"," ","L","7","M">>
M_A350_L7M == <<"A","S","T","M"," ","A","3","5","0"," ","L","7","M">>
M_L7MHDG == <<"L","7","M","H","D","G">>
M_CARBON_STEEL == <<"C","A","R","B","O","N"," ","S","T","E","E","L">>
M_C45 == <<"C","4","5">>
M_SS_GR316_GRAPHITE == <<"S","S"," ","G","r",".","3","1","6"," ","+"," ","G","R","A","P","H","I","T","E">>
M_SSGRAF == <<"S","S","G","R","A","F">>
M_SS_GR316_PTFE == <<"S","S"," ","G","r",".","3","1","6"," ","+"," ","P","T","F","E">>
M_SSBPTFE == <<"S","S","B","P","T","F","E">>
M_STAINLESS_GR316 == <<"S","T","A","I","N","L","E","S","S"," ","S","T","E","E","L"," ","G","r",".","3","1","6">>
M_SS_GR316 == <<"S","S"," ","G","r",".","3","1","6">>
M_SOFT_IRON == <<"S","O","F","T"," ","I","R","O","N">>
M_SOFTIRON == <<"S","O","F","T","I","R","O","N">>
M_API_6A == <<"A","P","I"," ","6","A">>
M_CAST_IRON == <<"C","A","S","T"," ","I","R","O","N">>
M_PEEK == <<"P","E","E","K">>
M_ELGILOY == <<"E","L","G","I","L","O","Y">>
M_A194_GR_7M == <<"A","S","T","M"," ","A","1","9","4"," ","G","r",".","7","M">>
M_A194_GR7M == <<"A","S","T","M"," ","A","1","9","4"," ","G","r","7","M">>

TestCaseMaterials ==
    {M_GRAPHITE, M_GRAF, M_A350_LF2_CL1, M_A350_LF2,
     M_ASTM_A350_LF2, M_LF2W62, M_LF2, M_A182_F316_F316L,
     M_A182_F316, M_F316_L, M_A479_S20910, M_A479_XM19,
     M_XM19HR, M_A320_L7M, M_A350_L7M, M_L7MHDG,
     M_CARBON_STEEL, M_C45, M_SS_GR316_GRAPHITE, M_SSGRAF,
     M_SS_GR316_PTFE, M_SSBPTFE, M_STAINLESS_GR316, M_SS_GR316,
     M_SOFT_IRON, M_SOFTIRON, M_API_6A, M_CAST_IRON,
     M_PEEK, M_ELGILOY, M_A194_GR_7M, M_A194_GR7M}

M_L7M_HDG == <<"L","7","M"," ","H","D","G">>
M_XM_19 == <<"X","M","-","1","9">>
M_graf == <<"g","r","a","f">>
M_BLANK == <<" ">>
M_BLANKS == <<" ","\t">>
M_GR == <<"G","R">>
M_S316L == <<"S","3","1","6","L">>
M_LF2_CL_1 == <<"L","F","2"," ","c","l","."," ","1">>
M_GR_7M_X == <<"G","R"," ","7","M","/","x">>

\* inputs the test cases leave out: null, empty and whitespace-only text,
\* lower case, variants of the synonym table that share a token, and texts
\* with tokens of one and two characters
EdgeMaterials ==
    {None, <<>>, M_BLANK, M_BLANKS, M_graf, M_GR, M_L7M_HDG, M_XM_19, M_S316L,
     M_LF2_CL_1, M_GR_7M_X}

MatchInputs == TestCaseMaterials \cup EdgeMaterials

\* fragments of material text, concatenated to build the texts that
\* normalize and extract_tokens are applied to
Pieces ==
    {<<" ">>, <<"\t">>, <<".">>, <<"/">>, <<"-">>,
     <<"A","S","T","M">>, <<"A","S","M","E">>, <<"G","R">>, <<"c","l">>,
     <<"A","3","5","0">>, <<"L","F","2">>}

\* largest number of fragments in a generated text
MaxParts == 3

RECURSIVE TextsOfParts(_)
TextsOfParts(n) ==
    IF n = 0 THEN {<<>>}
    ELSE LET shorter == TextsOfParts(n - 1)
         IN  shorter \cup {p \o t : p \in Pieces, t \in shorter}

GeneratedTexts == TextsOfParts(MaxParts)

\* the pairs of variants listed under one entry of MATERIAL_SYNONYMS
SynonymPairs ==
    UNION { Range(MATERIAL_SYNONYMS[base_name])
              \X Range(MATERIAL_SYNONYMS[base_name]) :
            base_name \in DOMAIN MATERIAL_SYNONYMS }

ClassifierInputs ==
    (GeneratedTexts \X {<<>>, M_A350_LF2}) \cup (MatchInputs \X MatchInputs)
        \cup SynonymPairs

-----------------------------------------------------------------------------
(* The classifier functions, each called once on the inputs *)

ClassifierInit ==
    /\ \E input \in ClassifierInputs :
           /\ material1 = input[1]
           /\ material2 = input[2]
    /\ call = "none"
    /\ ret = <<>>

Normalize ==
    /\ call = "none"
    /\ call' = "normalize"
    /\ ret' = normalize(material1)
    /\ UNCHANGED <<material1, material2>>
    /\ UNCHANGED <<mergeVars, pipelineVars, functionVars, sessionVars>>

ExtractTokens ==
    /\ call = "none"
    /\ call' = "extract_tokens"
    /\ ret' = extract_tokens(material1)
    /\ UNCHANGED <<material1, material2>>
    /\ UNCHANGED <<mergeVars, pipelineVars, functionVars, sessionVars>>

SmartMaterialMatch ==
    /\ call = "none"
    /\ call' = "smart_material_match"
    /\ ret' = smart_material_match(material1, material2)
    /\ UNCHANGED <<material1, material2>>
    /\ UNCHANGED <<mergeVars, pipelineVars, functionVars, sessionVars>>

ClassifierNext == Normalize \/ ExtractTokens \/ SmartMaterialMatch

\* descriptions of drawing components
D_Body == <<"B","o","d","y">>
D_BALL == <<"B","A","L","L">>
D_Seat_Ring == <<"S","e","a","t"," ","R","i","n","g">>
D_Rings_Seat == <<"R","i","n","g","s"," ","S","e","a","t">>
D_Seat_Insert == <<"S","e","a","t"," ","I","n","s","e","r","t">>
D_Bolt == <<"B","o","l","t">>
D_Stem == <<"S","t","e","m">>
D_Blank == <<" ">>
D_Empty == <<>>

\* component names of a components sheet
B_Body == <<"B","o","d","y">>
B_Ball == <<"B","a","l","l">>
B_Seat_Rings == <<"S","e","a","t"," ","R","i","n","g","s">>
B_Seat_Ring == <<"S","e","a","t"," ","R","i","n","g">>
B_Rings_Seat == <<"R","i","n","g","s"," ","S","e","a","t">>
B_Stem == <<"S","t","e","m">>
B_Bolts == <<"B","o","l","t","s">>

\* the categories of component_columns, columns 18 to 30
K_Body == <<"B","o","d","y">>
K_Closures == <<"C","l","o","s","u","r","e","s">>
K_Gland == <<"G","l","a","n","d">>
K_Trunnion == <<"T","r","u","n","n","i","o","n">>
K_Weld_overlay == <<"W","e","l","d"," ","o","v","e","r","l","a","y">>
K_Ball == <<"B","a","l","l">>
K_Seat_rings == <<"S","e","a","t"," ","r","i","n","g","s">>
K_Seat_inserts == <<"S","e","a","t"," ","i","n","s","e","r","t","s">>
K_Stem == <<"S","t","e","m">>
K_Dynamic_seals == <<"D","y","n","a","m","i","c"," ","s","e","a","l","s">>
K_Static_seals == <<"S","t","a","t","i","c"," ","s","e","a","l","s">>
K_Fire_Safe_gaskets == <<"F","i","r","e"," ","S","a","f","e"," ","g","a","s","k","e","t","s">>
K_Springs == <<"S","p","r","i","n","g","s">>

\* fuzz.token_sort_ratio (fuzzywuzzy) on the lower-cased names above: every
\* pair that scores 50 or more, as <<s1, s2, score>>. A pair of equal texts
\* scores 100, and so does a pair with the same words in another order.
SimilarityTable ==
    {
     <<lower(D_Body), lower(B_Body), 100>>,
     <<lower(D_BALL), lower(B_Ball), 100>>,
     <<lower(D_Seat_Ring), lower(B_Seat_Rings), 95>>,
     <<lower(D_Seat_Ring), lower(B_Seat_Ring), 100>>,
     <<lower(D_Seat_Ring), lower(B_Rings_Seat), 95>>,
     <<lower(D_Seat_Ring), lower(K_Seat_inserts), 67>>,
     <<lower(D_Seat_Ring), lower(K_Springs), 62>>,
     <<lower(D_Rings_Seat), lower(B_Seat_Rings), 100>>,
     <<lower(D_Rings_Seat), lower(B_Seat_Ring), 95>>,
     <<lower(D_Rings_Seat), lower(B_Rings_Seat), 100>>,
     <<lower(D_Rings_Seat), lower(K_Seat_inserts), 73>>,
     <<lower(D_Rings_Seat), lower(K_Springs), 59>>,
     <<lower(D_Seat_Insert), lower(B_Seat_Rings), 76>>,
     <<lower(D_Seat_Insert), lower(B_Seat_Ring), 70>>,
     <<lower(D_Seat_Insert), lower(B_Rings_Seat), 76>>,
     <<lower(D_Seat_Insert), lower(K_Seat_inserts), 96>>,
     <<lower(D_Seat_Insert), lower(K_Fire_Safe_gaskets), 50>>,
     <<lower(D_Bolt), lower(B_Body), 50>>,
     <<lower(D_Bolt), lower(B_Ball), 50>>,
     <<lower(D_Bolt), lower(B_Bolts), 89>>,
     <<lower(D_Stem), lower(B_Stem), 100>>
    }

\* The pairs the table leaves out score below 50, under both thresholds of
\* the callers, which use a score only in "score > best and score >=
\* threshold": they are given the score 0.
token_sort_ratio(s1, s2) ==
    IF \E e \in SimilarityTable : e[1] = s1 /\ e[2] = s2
    THEN (CHOOSE e \in SimilarityTable : e[1] = s1 /\ e[2] = s2)[3]
    ELSE 0

\* score >= 70 in merge_all_data
BomThreshold == 70

\* score >= 80 in find_matching_manager_column
ManagerThreshold == 80

\* dict.get(key, default)
Get(d, key, default) == IF key \in DOMAIN d THEN d[key] ELSE default

\* d[key] = value on a dict
Put(d, key, value) ==
    [k \in DOMAIN d \cup {key} |-> IF k = key THEN value ELSE d[k]]

\* A mapping whose iteration order matters (bom_components,
\* manager_materials) is the sequence of its <<key, value>> items in
\* insertion order.
Keys(mapping) == {mapping[i][1] : i \in DOMAIN mapping}

\* The loop "if score > best_score and score >= threshold" over the items
\* from index i on: the item kept at the end, NoMatch if none was accepted.
NoMatch == <<None, None>>

\* the loop with "score >= best_score": the last of the best candidates
RECURSIVE best_match_last_tie(_, _, _, _, _, _)
best_match_last_tie(query, mapping, threshold, i, best_score, best) ==
    IF i > Len(mapping) THEN best
    ELSE LET score == token_sort_ratio(query, lower(mapping[i][1]))
         IN  IF score >= best_score /\ score >= threshold
             THEN best_match_last_tie(query, mapping, threshold, i + 1, score,
                                      mapping[i])
             ELSE best_match_last_tie(query, mapping, threshold, i + 1,
                                      best_score, best)

RECURSIVE best_match(_, _, _, _, _, _)
best_match(query, mapping, threshold, i, best_score, best) ==
    IF i > Len(mapping) THEN best
    ELSE LET score == token_sort_ratio(query, lower(mapping[i][1]))
         IN  IF score > best_score /\ score >= threshold
             THEN best_match(query, mapping, threshold, i + 1, score, mapping[i])
             ELSE best_match(query, mapping, threshold, i + 1, best_score, best)

find_matching_manager_column(pdf_description, materials) ==
    LET pdf_lower == strip(lower(pdf_description))
        exact == {i \in DOMAIN materials :
                    pdf_lower = lower(materials[i][1])}
    IN  IF exact # {}
        THEN materials[CHOOSE i \in exact : \A j \in exact : i <= j]
        ELSE best_match(pdf_lower, materials, ManagerThreshold, 1, 0, NoMatch)

\* step 1 of merge_all_data: the best components-sheet entry for a
\* description, as <<name, data>>, NoMatch if no score reaches 70
find_matching_bom(description, components) ==
    best_match(lower(description), components, BomThreshold, 1, 0, NoMatch)

\* a quantity is <<n>> for the integer n and <<>> for None
NoQuantity == <<>>

\* step 5 with "notEqual" for every component that no source confirms
merge_status_unconfirmed(bom_materials_match, order_materials_match, bom_material, manager_material) ==
    IF bom_materials_match \/ order_materials_match THEN "equal" ELSE "notEqual"

\* step 5 of merge_all_data
merge_status(bom_materials_match, order_materials_match, bom_material, manager_material) ==
    IF bom_materials_match \/ order_materials_match THEN "equal"
    ELSE IF (Truthy(bom_material) \/ Truthy(manager_material))
            /\ ~(bom_materials_match \/ order_materials_match)
         THEN "notEqual"
         ELSE "equal"

\* the description as the drawing gives it, whitespace kept
item_description_raw(item) == Get(item, "description", <<>>)

\* the description the loop tests: item.get("description", "").strip()
item_description(item) == strip(Get(item, "description", <<>>))

\* the manager column a drawing component marks as used, None if none
used_manager_column(item, materials) ==
    IF item_description(item) = <<>> THEN None
    ELSE find_matching_manager_column(item_description(item), materials)[1]

\* step 6 keeping the quantity a drawing row already carries
merge_item_drawing_quantity(item, components, materials) ==
    LET description == item_description(item)
        pdf_material == strip(Get(item, "material", <<>>))
        matched_bom == find_matching_bom(description, components)
        bom_material == IF matched_bom[1] # None
                        THEN Get(matched_bom[2], "material", <<>>)
                        ELSE <<>>
        bom_quantity == IF matched_bom[1] # None
                        THEN matched_bom[2]["quantity"]
                        ELSE NoQuantity
        bom_materials_match ==
            IF Truthy(pdf_material) /\ Truthy(bom_material)
            THEN smart_material_match(pdf_material, bom_material)[1]
            ELSE FALSE
        manager == find_matching_manager_column(description, materials)
        manager_material == manager[2]
        order_materials_match ==
            IF Truthy(pdf_material) /\ Truthy(manager_material)
            THEN smart_material_match(pdf_material, manager_material)[1]
            ELSE FALSE
        status == merge_status(bom_materials_match, order_materials_match,
                               bom_material, manager_material)
        i1 == Put(item, "material", pdf_material)
        i2 == Put(i1, "bom_material", IF Truthy(bom_material) THEN bom_material ELSE None)
        i3 == Put(i2, "order_material",
                  IF Truthy(manager_material) THEN manager_material ELSE None)
        i4 == IF "quantity" \in DOMAIN i3 THEN i3
              ELSE Put(i3, "quantity", bom_quantity)
        i5 == Put(i4, "manager_quantity", NoQuantity)
        i6 == Put(i5, "status", status)
    IN  IF description = <<>> THEN item
        ELSE IF "note" \in DOMAIN i6 THEN i6 ELSE Put(i6, "note", <<>>)

\* the body of the loop over table2 for one item (steps 1 to 6)
merge_item(item, components, materials) ==
    LET description == item_description(item)
        pdf_material == strip(Get(item, "material", <<>>))
        matched_bom == find_matching_bom(description, components)
        bom_material == IF matched_bom[1] # None
                        THEN Get(matched_bom[2], "material", <<>>)
                        ELSE <<>>
        bom_quantity == IF matched_bom[1] # None
                        THEN matched_bom[2]["quantity"]
                        ELSE NoQuantity
        bom_materials_match ==
            IF Truthy(pdf_material) /\ Truthy(bom_material)
            THEN smart_material_match(pdf_material, bom_material)[1]
            ELSE FALSE
        manager == find_matching_manager_column(description, materials)
        manager_material == manager[2]
        order_materials_match ==
            IF Truthy(pdf_material) /\ Truthy(manager_material)
            THEN smart_material_match(pdf_material, manager_material)[1]
            ELSE FALSE
        status == merge_status(bom_materials_match, order_materials_match,
                               bom_material, manager_material)
        i1 == Put(item, "material", pdf_material)
        i2 == Put(i1, "bom_material", IF Truthy(bom_material) THEN bom_material ELSE None)
        i3 == Put(i2, "order_material",
                  IF Truthy(manager_material) THEN manager_material ELSE None)
        i4 == Put(i3, "quantity", bom_quantity)
        i5 == Put(i4, "manager_quantity", NoQuantity)
        i6 == Put(i5, "status", status)
    IN  IF description = <<>> THEN item
        ELSE IF "note" \in DOMAIN i6 THEN i6 ELSE Put(i6, "note", <<>>)

\* step 7 leaving order_material unset
new_item_no_order(manager_column, manager_material) ==
    [pos |-> <<>>,
     description |-> manager_column,
     material |-> manager_material,
     bom_material |-> None,
     order_material |-> None,
     quantity |-> NoQuantity,
     manager_quantity |-> NoQuantity,
     status |-> "new",
     note |-> <<>>]

\* step 7: the record appended for an unused manager column
new_item(manager_column, manager_material) ==
    [pos |-> <<>>,
     description |-> manager_column,
     material |-> manager_material,
     bom_material |-> None,
     order_material |-> manager_material,
     quantity |-> NoQuantity,
     manager_quantity |-> NoQuantity,
     status |-> "new",
     note |-> <<>>]

\* pdf_data.get("table2", [])
table2_of(data) == Get(data, "table2", <<>>)

\* merge_all_data putting the new records in front of the drawing's
merge_all_data_new_first(data, components, materials) ==
    LET table2 == table2_of(data)
        used_manager_columns ==
            {used_manager_column(table2[i], materials) : i \in DOMAIN table2}
                \ {None}
        merged == [i \in DOMAIN table2 |->
                      merge_item(table2[i], components, materials)]
        unused == SelectSeq(materials,
                            LAMBDA e : e[1] \notin used_manager_columns)
        appended == [i \in DOMAIN unused |-> new_item(unused[i][1], unused[i][2])]
    IN  IF "table2" \in DOMAIN data
        THEN [data EXCEPT !["table2"] = appended \o merged]
        ELSE data

\* When pdf_data has no "table2" key, each pdf_data.get("table2", []) is a
\* fresh list: the loop sees no item and the appended records are lost.
merge_all_data(data, components, materials) ==
    LET table2 == table2_of(data)
        used_manager_columns ==
            {used_manager_column(table2[i], materials) : i \in DOMAIN table2}
                \ {None}
        merged == [i \in DOMAIN table2 |->
                      merge_item(table2[i], components, materials)]
        unused == SelectSeq(materials,
                            LAMBDA e : e[1] \notin used_manager_columns)
        appended == [i \in DOMAIN unused |-> new_item(unused[i][1], unused[i][2])]
    IN  IF "table2" \in DOMAIN data
        THEN [data EXCEPT !["table2"] = merged \o appended]
        ELSE data

-----------------------------------------------------------------------------
(* Inputs of merge_all_data *)

\* rows of table2 as the drawing extraction returns them: pos, description,
\* material and, not always, note
I_Body ==
    [pos |-> <<"1">>, description |-> D_Body, material |-> M_A350_LF2_CL1,
     note |-> <<>>]
I_Ball ==
    [pos |-> <<"2">>, description |-> D_BALL, material |-> M_A182_F316_F316L]
I_Seat_Ring ==
    [pos |-> <<"3">>, description |-> D_Seat_Ring, material |-> M_PEEK,
     note |-> <<"x">>]
I_Stem ==
    [pos |-> <<"4">>, description |-> D_Stem, material |-> <<>>, note |-> <<>>]
I_Bolt ==
    [pos |-> <<"5">>, description |-> D_Bolt, material |-> M_A320_L7M,
     note |-> <<>>]
I_Blank ==
    [pos |-> <<>>, description |-> D_Blank, material |-> M_GRAF, note |-> <<>>]

\* a row whose material is padded and which carries a quantity of its own
I_Stem_padded ==
    [pos |-> <<"6">>, description |-> D_Stem,
     material |-> <<" ","X","M","1","9","H","R"," ">>, quantity |-> <<3>>]

\* a row with an empty description
I_Empty == [pos |-> <<"7">>, description |-> D_Empty, material |-> M_PEEK]

DrawingItems ==
    {I_Body, I_Ball, I_Seat_Ring, I_Stem, I_Bolt, I_Blank, I_Stem_padded,
     I_Empty}

\* largest number of rows of table2
MaxItems == 2

RECURSIVE TablesOfLength(_)
TablesOfLength(n) ==
    IF n = 0 THEN {<<>>}
    ELSE LET shorter == TablesOfLength(n - 1)
         IN  shorter \cup {<<item>> \o t : item \in DrawingItems, t \in shorter}

\* the parsed reply of the drawing extraction: with a table2 of up to
\* MaxItems rows, or without the table2 key
DrawingData ==
    {[table1 |-> <<>>, table2 |-> t] : t \in TablesOfLength(MaxItems)}
        \cup {[table1 |-> <<>>]}

\* an entry of bom_components, as parse_bom_sheet builds it
BomEntry(name, quantity, material) ==
    <<name, [quantity |-> <<quantity>>, material |-> material]>>

BomSheets ==
    {<<>>,
     <<BomEntry(B_Body, 2, M_A350_LF2), BomEntry(B_Ball, 1, M_CARBON_STEEL),
       BomEntry(B_Stem, 1, M_SS_GR316)>>,
     <<BomEntry(B_Seat_Rings, 4, M_PEEK), BomEntry(B_Seat_Ring, 2, <<>>),
       BomEntry(B_Bolts, 8, M_L7MHDG)>>,
     <<BomEntry(B_Ball, 1, <<>>), BomEntry(B_Body, 0, M_C45)>>}

\* materials mappings as parse_manager_sheet builds them: categories in
\* column order, each with a non-empty material
ManagerMappings ==
    {<<>>,
     <<<<K_Gland, M_A479_S20910>>>>,
     <<<<K_Body, M_A350_LF2>>, <<K_Gland, M_A479_S20910>>, <<K_Ball, M_A182_F316>>>>,
     <<<<K_Body, M_CARBON_STEEL>>, <<K_Seat_rings, M_PEEK>>, <<K_Stem, M_XM19HR>>,
       <<K_Springs, M_ELGILOY>>>>}

-----------------------------------------------------------------------------
(* merge_all_data, called once on the inputs *)

MergeInit ==
    /\ drawing \in DrawingData
    /\ pdf_data = drawing
    /\ bom_components \in BomSheets
    /\ manager_materials \in ManagerMappings
    /\ merge_call = "none"

MergeAllData ==
    /\ merge_call = "none"
    /\ merge_call' = "merge_all_data"
    /\ pdf_data' = merge_all_data(pdf_data, bom_components, manager_materials)
    /\ UNCHANGED <<drawing, bom_components, manager_materials>>
    /\ UNCHANGED <<classifierVars, pipelineVars, functionVars, sessionVars>>

MergeNext == MergeAllData

-----------------------------------------------------------------------------
(* excel_parser.py: the spreadsheets *)

\* A cell read with values_only is None or a text, given as the text str()
\* makes of it. A quantity cell keeps its type, which int() depends on:
\* empty, an integer, or a text.
QNone == [kind |-> "none"]
QInt(n) == [kind |-> "int", value |-> n]
QText(s) == [kind |-> "text", value |-> s]

\* the header label that parse_bom_sheet skips
HeaderLabel ==
    <<"D","e","s","c","r","i","z","i","o","n","e"," ",
      "c","o","m","p","o","n","e","n","t","e">>

DigitValue(c) ==
    CASE c = "0" -> 0 [] c = "1" -> 1 [] c = "2" -> 2 [] c = "3" -> 3
      [] c = "4" -> 4 [] c = "5" -> 5 [] c = "6" -> 6 [] c = "7" -> 7
      [] c = "8" -> 8 [] c = "9" -> 9

RECURSIVE DigitsValue(_)
DigitsValue(s) ==
    IF s = <<>> THEN 0
    ELSE 10 * DigitsValue(SubSeq(s, 1, Len(s) - 1)) + DigitValue(s[Len(s)])

\* int(text) succeeds on an optional sign and decimal digits, surrounding
\* whitespace allowed
IsIntText(s) ==
    LET t == strip(s)
        d == IF t # <<>> /\ Head(t) \in {"+", "-"} THEN Tail(t) ELSE t
    IN  d # <<>> /\ \A i \in DOMAIN d : d[i] \in Digits

IntOfText(s) ==
    LET t == strip(s)
    IN  IF Head(t) = "-" THEN 0 - DigitsValue(Tail(t))
        ELSE IF Head(t) = "+" THEN DigitsValue(Tail(t))
        ELSE DigitsValue(t)

\* the quantity of a component row:
\* int(quantity) if quantity else 1, and 1 on ValueError or TypeError
row_quantity(cell) ==
    CASE cell.kind = "none" -> 1
      [] cell.kind = "int" -> IF cell.value # 0 THEN cell.value ELSE 1
      [] cell.kind = "text" ->
            IF cell.value # <<>> /\ IsIntText(cell.value)
            THEN IntOfText(cell.value)
            ELSE 1

\* mapping[key] = value on a mapping kept in insertion order
SetItem(mapping, key, value) ==
    IF key \in Keys(mapping)
    THEN [i \in DOMAIN mapping |->
            IF mapping[i][1] = key THEN <<key, value>> ELSE mapping[i]]
    ELSE Append(mapping, <<key, value>>)

\* mapping[key]
GetItem(mapping, key) ==
    mapping[CHOOSE i \in DOMAIN mapping : mapping[i][1] = key][2]

\* an iteration that leaves a row without a name alone
scan_row_no_continuation(row, components, last_component_name) ==
    IF Truthy(row.name) /\ strip(row.name) # <<>> /\ strip(row.name) # HeaderLabel
    THEN [components |->
              SetItem(components, strip(row.name),
                      [quantity |-> <<row_quantity(row.quantity)>>,
                       material |-> IF Truthy(row.material)
                                    THEN strip(row.material) ELSE <<>>]),
          last_component_name |-> strip(row.name)]
    ELSE [components |-> components,
          last_component_name |-> last_component_name]

\* an iteration that records a component without moving the cursor to it
scan_row_cursor_kept(row, components, last_component_name) ==
    IF Truthy(row.name) /\ strip(row.name) # <<>> /\ strip(row.name) # HeaderLabel
    THEN [components |->
              SetItem(components, strip(row.name),
                      [quantity |-> <<row_quantity(row.quantity)>>,
                       material |-> IF Truthy(row.material)
                                    THEN strip(row.material) ELSE <<>>]),
          last_component_name |-> last_component_name]
    ELSE IF /\ ~(Truthy(row.name) /\ strip(row.name) # <<>>)
            /\ Truthy(row.material)
            /\ strip(row.material) # <<>>
            /\ Truthy(last_component_name)
            /\ last_component_name \in Keys(components)
         THEN [components |->
                   SetItem(components, last_component_name,
                           [GetItem(components, last_component_name)
                              EXCEPT !.material = strip(row.material)]),
               last_component_name |-> last_component_name]
         ELSE [components |-> components,
               last_component_name |-> last_component_name]

\* One iteration of the loop of parse_bom_sheet. A row is
\* [name, quantity, material]: the cells AC, AQ and F. The loop's state is
\* the components mapping and last_component_name.
scan_row(row, components, last_component_name) ==
    LET component_name == row.name
        material == row.material
    IN  IF Truthy(component_name) /\ strip(component_name) # <<>>
        THEN LET name == strip(component_name)
                 qty == row_quantity(row.quantity)
                 mat == IF Truthy(material) THEN strip(material) ELSE <<>>
             IN  IF name = HeaderLabel
                 THEN [components |-> components,
                       last_component_name |-> last_component_name]
                 ELSE [components |->
                           SetItem(components, name,
                                   [quantity |-> <<qty>>, material |-> mat]),
                       last_component_name |-> name]
        ELSE IF /\ Truthy(material)
                /\ strip(material) # <<>>
                /\ Truthy(last_component_name)
                /\ last_component_name \in Keys(components)
             THEN [components |->
                       SetItem(components, last_component_name,
                               [GetItem(components, last_component_name)
                                  EXCEPT !.material = strip(material)]),
                   last_component_name |-> last_component_name]
             ELSE [components |-> components,
                   last_component_name |-> last_component_name]

\* the loop of parse_bom_sheet over the rows from index i on
RECURSIVE scan_rows(_, _, _, _)
scan_rows(rows, i, components, last_component_name) ==
    IF i > Len(rows) THEN components
    ELSE LET next == scan_row(rows[i], components, last_component_name)
         IN  scan_rows(rows, i + 1, next.components, next.last_component_name)

\* str(cell).strip() if cell else None
cell_text(cell) == IF Truthy(cell) THEN strip(cell) ELSE None

\* the number of cells of a row below which parse_bom_sheet skips it
BomRowWidth == 42

\* the number of cells of a row below which parse_manager_sheet skips it
ManagerRowWidth == 30

\* wb.worksheets[sheet_index]: Python list indexing, negative indices
\* counting from the end
ValidIndex(n, index) == 0 - n <= index /\ index < n
ListIndex(n, index) == IF index >= 0 THEN index + 1 ELSE n + index + 1

\* A call returns [raised |-> FALSE, value |-> v] or raises:
\* [raised |-> TRUE, error |-> name].
Returned(v) == [raised |-> FALSE, value |-> v]
Raised(e) == [raised |-> TRUE, error |-> e]

\* the rows the loop of parse_bom_sheet does not skip for their length:
\* the rows of a sheet all have the sheet's number of columns
scanned_rows(ws) == IF ws.width <= BomRowWidth THEN <<>> ELSE ws.rows

\* A workbook is [readable, worksheets]; a components worksheet is
\* [size, asme, ends, width, rows] with the cells D28, O28, Y28, the number
\* of columns and the rows 31 to 100.
parse_bom_sheet(workbook, sheet_index) ==
    IF ~workbook.readable THEN Raised("InvalidFileException")
    ELSE IF ~ValidIndex(Len(workbook.worksheets), sheet_index)
    THEN Raised("IndexError")
    ELSE LET ws == workbook.worksheets[ListIndex(Len(workbook.worksheets), sheet_index)]
             rows == scanned_rows(ws)
         IN  Returned([size |-> cell_text(ws.size),
                       asme |-> cell_text(ws.asme),
                       ends |-> cell_text(ws.ends),
                       components |-> scan_rows(rows, 1, <<>>, None)])

\* text.replace('"', "").replace("'", "").strip() if text else ""
clean_size(text) ==
    IF Truthy(text)
    THEN strip(replace(replace(text, <<"\"">>, <<>>), <<"'">>, <<>>))
    ELSE <<>>

\* text.strip() if text else ""
clean_text(text) == IF Truthy(text) THEN strip(text) ELSE <<>>

\* a mismatch test under which an empty value matches only an empty value
Mismatch_empty_differs(a, b) ==
    /\ a # b
    /\ (a = <<>> \/ b = <<>> \/ (~Contains(b, a) /\ ~Contains(a, b)))

\* a mismatch test that looks for the first value inside the second only
Mismatch_one_way(a, b) == ~Contains(b, a)

\* a not in b and b not in a
Mismatch(a, b) == ~Contains(b, a) /\ ~Contains(a, b)

\* An error message is <<field, components-sheet value, drawing value>>,
\* the three parts of the formatted text.
validate_bom_with_pdf(bom, pdf_size, pdf_asme, pdf_ends) ==
    LET bom_size == clean_size(bom.size)
        pdf_size_clean == clean_size(pdf_size)
        bom_asme == clean_text(bom.asme)
        pdf_asme_clean == clean_text(pdf_asme)
        bom_ends == clean_text(bom.ends)
        pdf_ends_clean == clean_text(pdf_ends)
        e1 == IF Mismatch(bom_size, pdf_size_clean)
              THEN <<<<"SIZE", bom.size, pdf_size>>>> ELSE <<>>
        e2 == IF Mismatch(bom_asme, pdf_asme_clean)
              THEN <<<<"ASME", bom.asme, pdf_asme>>>> ELSE <<>>
        e3 == IF Mismatch(bom_ends, pdf_ends_clean)
              THEN <<<<"ENDS", bom.ends, pdf_ends>>>> ELSE <<>>
        errors == e1 \o e2 \o e3
    IN  [valid |-> Len(errors) = 0, errors |-> errors]

\* component_columns of parse_manager_sheet: column number and category
component_columns ==
    <<<<18, K_Body>>, <<19, K_Closures>>, <<20, K_Gland>>, <<21, K_Trunnion>>,
      <<22, K_Weld_overlay>>, <<23, K_Ball>>, <<24, K_Seat_rings>>,
      <<25, K_Seat_inserts>>, <<26, K_Stem>>, <<27, K_Dynamic_seals>>,
      <<28, K_Static_seals>>, <<29, K_Fire_Safe_gaskets>>, <<30, K_Springs>>>>

\* the first sheet row parse_manager_sheet scans
FirstManagerRow == 15

\* a materials mapping that keeps the cells holding only whitespace
RECURSIVE row_materials_with_blanks(_, _)
row_materials_with_blanks(row, i) ==
    IF i > Len(component_columns) THEN <<>>
    ELSE LET material == Get(row.cells, component_columns[i][1], None)
             rest == row_materials_with_blanks(row, i + 1)
         IN  IF Truthy(material)
             THEN <<<<component_columns[i][2], strip(material)>>>> \o rest
             ELSE rest

\* the materials mapping of a matching row: its non-empty cells among the
\* columns of component_columns, from index i on. row.cells maps a column
\* number to its cell; a column it leaves out is an empty cell.
RECURSIVE row_materials(_, _)
row_materials(row, i) ==
    IF i > Len(component_columns) THEN <<>>
    ELSE LET material == Get(row.cells, component_columns[i][1], None)
             rest == row_materials(row, i + 1)
         IN  IF Truthy(material) /\ strip(material) # <<>>
             THEN <<<<component_columns[i][2], strip(material)>>>> \o rest
             ELSE rest

\* The loop of parse_manager_sheet over the rows from index i on. The
\* manager sheet is [readable, width, rows], rows holding the sheet rows 15
\* to 99 as [size, class, cells].
RECURSIVE scan_manager_rows(_, _, _, _)
scan_manager_rows(ws, i, target_size_clean, target_asme_clean) ==
    IF i > Len(ws.rows) THEN [found |-> FALSE, error |-> "row not found"]
    ELSE LET row == ws.rows[i]
             size_str == IF Truthy(row.size) THEN clean_size(row.size) ELSE <<>>
             class_str == IF Truthy(row.class) THEN strip(row.class) ELSE <<>>
         IN  IF ws.width < ManagerRowWidth \/ ~Truthy(row.size) \/ ~Truthy(row.class)
             THEN scan_manager_rows(ws, i + 1, target_size_clean, target_asme_clean)
             ELSE IF /\ Contains(size_str, target_size_clean)
                     /\ Contains(class_str, target_asme_clean)
                  THEN [found |-> TRUE,
                        row |-> FirstManagerRow + i - 1,
                        size |-> size_str,
                        asme |-> class_str,
                        materials |-> row_materials(row, 1)]
                  ELSE scan_manager_rows(ws, i + 1, target_size_clean, target_asme_clean)

parse_manager_sheet(workbook, target_size, target_asme) ==
    IF ~workbook.readable THEN Raised("InvalidFileException")
    ELSE Returned(scan_manager_rows(workbook, 1,
                                    clean_size(target_size), clean_text(target_asme)))

-----------------------------------------------------------------------------
(* api.py: the parse-pdf request *)

T_12_inch == <<"1","2","\"">>
T_12 == <<"1","2">>
T_10 == <<"1","0">>
T_8_inch == <<"8","\"">>
T_600 == <<"6","0","0">>
T_300 == <<"3","0","0">>
T_ASME_600 == <<"A","S","M","E"," ","6","0","0">>
T_RTJ == <<"R","T","J">>
T_RF == <<"R","F">>

\* a components workbook of two sheets: the first for a 12" class 600 RTJ
\* valve, its second row continuing the material of the first, the second
\* for another valve
BomWorkbook ==
    [readable |-> TRUE,
     worksheets |-> <<
        [size |-> T_12_inch, asme |-> T_600, ends |-> T_RTJ, width |-> 43,
         rows |-> <<
            [name |-> B_Body, quantity |-> QInt(2), material |-> M_A350_LF2],
            [name |-> None, quantity |-> QNone, material |-> M_A350_LF2_CL1],
            [name |-> B_Ball, quantity |-> QNone, material |-> M_CARBON_STEEL]>>],
        [size |-> T_8_inch, asme |-> T_300, ends |-> T_RF, width |-> 43,
         rows |-> <<
            [name |-> B_Stem, quantity |-> QText(<<"4">>), material |-> None]>>]>>]

UnreadableWorkbook == [readable |-> FALSE]

\* a manager sheet whose second scanned row is the 12" class 600 one
ManagerWorkbook ==
    [readable |-> TRUE, width |-> 30,
     rows |-> <<
        [size |-> T_10, class |-> T_600,
         cells |-> (18 :> M_C45)],
        [size |-> T_12, class |-> T_600,
         cells |-> (18 :> M_A350_LF2 @@ 20 :> M_A479_S20910 @@ 23 :> M_A182_F316)]>>]

\* a manager sheet with no 12" row
ManagerWorkbookOther ==
    [readable |-> TRUE, width |-> 30,
     rows |-> <<[size |-> T_10, class |-> T_600, cells |-> (18 :> M_C45)]>>]

\* replies of the drawing extraction for a 12" class 600 RTJ valve
Extraction ==
    [table1 |-> <<[field |-> "SIZE", value |-> T_12_inch],
                  [field |-> "ASME", value |-> T_ASME_600],
                  [field |-> "ENDS", value |-> T_RTJ]>>,
     table2 |-> <<I_Body, I_Ball>>]

ExtractionNoFields == [table1 |-> <<>>, table2 |-> <<I_Bolt>>]

\* parse_drawing_pdf_ai raising
ExtractionError == [raised |-> TRUE]

Requests ==
    [excel_bom : BOOLEAN,
     excel_manager : BOOLEAN,
     bom_sheet_index : {-1, 0, 1, 2},
     api_key : BOOLEAN,
     extraction : {Extraction, ExtractionNoFields, ExtractionError},
     bom_workbook : {BomWorkbook},
     manager_workbook : {ManagerWorkbook, ManagerWorkbookOther, UnreadableWorkbook}]

\* a path variable before a temporary file is assigned to it
NoPath == "None"

\* the value of the last item of table1 whose field is the given one, None
\* if there is none (the loop over table1 in parse_pdf)
RECURSIVE table1_value(_, _, _)
table1_value(table1, field, i) ==
    IF i = 0 THEN None
    ELSE IF Get(table1[i], "field", None) = field
         THEN Get(table1[i], "value", None)
         ELSE table1_value(table1, field, i - 1)

Called(name) == \E i \in DOMAIN calls : calls[i] = name

PipelineInit ==
    /\ request \in Requests
    /\ pc = "save_pdf"
    /\ temp_files = {}
    /\ pdf_path = NoPath
    /\ bom_path = NoPath
    /\ manager_path = NoPath
    /\ bom_data = <<>>
    /\ validation = <<>>
    /\ manager_data = <<>>
    /\ validation_info = <<>>
    /\ response = <<>>
    /\ calls = <<>>

handlerLocals ==
    <<pdf_path, bom_path, manager_path, bom_data, validation, manager_data,
      validation_info>>

\* The upload is written to a NamedTemporaryFile(delete=False); reading
\* the upload may raise, outside the try block, with the file left behind.
SavePdf ==
    /\ pc = "save_pdf"
    /\ temp_files' = temp_files \cup {"pdf.tmp"}
    /\ \/ /\ pdf_path' = "pdf.tmp"
          /\ pc' = "save_bom"
       \/ /\ pdf_path' = pdf_path
          /\ pc' = "raised"
    /\ UNCHANGED <<request, bom_path, manager_path, bom_data, validation,
                   manager_data, validation_info, response, calls>>
    /\ UNCHANGED <<classifierVars, mergeVars, functionVars, sessionVars>>

SaveBom ==
    /\ pc = "save_bom"
    /\ IF request.excel_bom
       THEN /\ temp_files' = temp_files \cup {"bom.tmp"}
            /\ \/ /\ bom_path' = "bom.tmp"
                  /\ pc' = "save_manager"
               \/ /\ bom_path' = bom_path
                  /\ pc' = "raised"
       ELSE /\ pc' = "save_manager"
            /\ UNCHANGED <<temp_files, bom_path>>
    /\ UNCHANGED <<request, pdf_path, manager_path, bom_data, validation,
                   manager_data, validation_info, response, calls>>
    /\ UNCHANGED <<classifierVars, mergeVars, functionVars, sessionVars>>

SaveManager ==
    /\ pc = "save_manager"
    /\ IF request.excel_manager
       THEN /\ temp_files' = temp_files \cup {"manager.tmp"}
            /\ \/ /\ manager_path' = "manager.tmp"
                  /\ pc' = "check_key"
               \/ /\ manager_path' = manager_path
                  /\ pc' = "raised"
       ELSE /\ pc' = "check_key"
            /\ UNCHANGED <<temp_files, manager_path>>
    /\ UNCHANGED <<request, pdf_path, bom_path, bom_data, validation,
                   manager_data, validation_info, response, calls>>
    /\ UNCHANGED <<classifierVars, mergeVars, functionVars, sessionVars>>

\* the error responses of parse_pdf, by the place that builds them
Failure(error) == [success |-> FALSE, error |-> error]

CheckApiKey ==
    /\ pc = "check_key"
    /\ IF request.api_key
       THEN pc' = "parse_drawing" /\ UNCHANGED response
       ELSE pc' = "finally" /\ response' = Failure("no api key")
    /\ UNCHANGED <<request, temp_files, handlerLocals, calls>>
    /\ UNCHANGED <<classifierVars, mergeVars, functionVars, sessionVars>>

\* step 1 and the branch "if bom_path and manager_path"
ParseDrawing ==
    /\ pc = "parse_drawing"
    /\ calls' = Append(calls, "parse_drawing_pdf_ai")
    /\ IF request.extraction = ExtractionError
       THEN /\ pc' = "finally"
            /\ response' = Failure("exception")
            /\ UNCHANGED <<drawing, pdf_data>>
       ELSE /\ pdf_data' = request.extraction
            /\ drawing' = request.extraction
            /\ pc' = IF bom_path # NoPath /\ manager_path # NoPath
                     THEN "parse_bom" ELSE "respond"
            /\ UNCHANGED response
    /\ UNCHANGED <<request, temp_files, handlerLocals>>
    /\ UNCHANGED <<classifierVars, bom_components, manager_materials, merge_call,
                   functionVars, sessionVars>>

\* step 2
ParseBom ==
    /\ pc = "parse_bom"
    /\ calls' = Append(calls, "parse_bom_sheet")
    /\ LET result == parse_bom_sheet(request.bom_workbook, request.bom_sheet_index)
       IN  IF result.raised
           THEN /\ pc' = "finally"
                /\ response' = Failure("excel error")
                /\ UNCHANGED bom_data
           ELSE /\ bom_data' = result.value
                /\ pc' = "validate"
                /\ UNCHANGED response
    /\ UNCHANGED <<request, temp_files, pdf_path, bom_path, manager_path,
                   validation, manager_data, validation_info>>
    /\ UNCHANGED <<classifierVars, mergeVars, functionVars, sessionVars>>

\* the gate letting every validation result through
gate_open(result) == TRUE

\* step 4: the run goes on only if validation["valid"]
gate_passed(result) == result.valid

\* steps 3 to 5: the validation gate
ValidateBom ==
    /\ pc = "validate"
    /\ calls' = Append(calls, "validate_bom_with_pdf")
    /\ LET table1 == Get(pdf_data, "table1", <<>>)
           pdf_size == table1_value(table1, "SIZE", Len(table1))
           pdf_asme == table1_value(table1, "ASME", Len(table1))
           pdf_ends == table1_value(table1, "ENDS", Len(table1))
           result == validate_bom_with_pdf(bom_data, pdf_size, pdf_asme, pdf_ends)
       IN  /\ validation' = result
           /\ IF ~gate_passed(result)
              THEN /\ pc' = "finally"
                   /\ response' =
                        [success |-> FALSE,
                         error |-> "BOM validation failed",
                         validation_errors |-> result.errors,
                         bom_data |-> [size |-> bom_data.size,
                                       asme |-> bom_data.asme,
                                       ends |-> bom_data.ends],
                         pdf_data |-> [size |-> pdf_size,
                                       asme |-> pdf_asme,
                                       ends |-> pdf_ends]]
                   /\ validation_info' = [bom_validation |-> result]
              ELSE /\ pc' = "parse_manager"
                   /\ validation_info' =
                        [bom_validation |-> result,
                         bom_valid |-> TRUE,
                         bom_sheet |-> request.bom_sheet_index,
                         bom_components |-> Len(bom_data.components)]
                   /\ UNCHANGED response
    /\ UNCHANGED <<request, temp_files, pdf_path, bom_path, manager_path,
                   bom_data, manager_data>>
    /\ UNCHANGED <<classifierVars, mergeVars, functionVars, sessionVars>>

\* a handler that merges whether or not the manager row was found
after_manager_merge_anyway(result) == "merge"

\* if manager_data["found"]: the merge follows only a found row
after_manager(result) ==
    IF result.found THEN "merge" ELSE "respond"

\* step 6
ParseManager ==
    /\ pc = "parse_manager"
    /\ calls' = Append(calls, "parse_manager_sheet")
    /\ LET result == parse_manager_sheet(request.manager_workbook,
                                         bom_data.size, bom_data.asme)
       IN  IF result.raised
           THEN /\ pc' = "finally"
                /\ response' = Failure("excel error")
                /\ UNCHANGED <<manager_data, validation_info>>
           ELSE /\ manager_data' = result.value
                /\ UNCHANGED response
                /\ IF result.value.found
                   THEN /\ pc' = after_manager(result.value)
                        /\ validation_info' =
                             Put(Put(Put(validation_info, "manager_found", TRUE),
                                     "manager_row", result.value.row),
                                 "manager_materials", Len(result.value.materials))
                   ELSE /\ pc' = after_manager(result.value)
                        /\ validation_info' =
                             Put(Put(validation_info, "manager_found", FALSE),
                                 "manager_error", Get(result.value, "error", None))
    /\ UNCHANGED <<request, temp_files, pdf_path, bom_path, manager_path,
                   bom_data, validation>>
    /\ UNCHANGED <<classifierVars, mergeVars, functionVars, sessionVars>>

\* step 7
CallMerge ==
    /\ pc = "merge"
    /\ calls' = Append(calls, "merge_all_data")
    /\ bom_components' = bom_data.components
    /\ manager_materials' = manager_data.materials
    /\ merge_call' = "merge_all_data"
    /\ pdf_data' = merge_all_data(pdf_data, bom_data.components, manager_data.materials)
    /\ pc' = "respond"
    /\ UNCHANGED <<request, temp_files, handlerLocals, response, drawing>>
    /\ UNCHANGED <<classifierVars, functionVars, sessionVars>>

Respond ==
    /\ pc = "respond"
    /\ response' = [success |-> TRUE, data |-> pdf_data, validation |-> validation_info]
    /\ pc' = "finally"
    /\ UNCHANGED <<request, temp_files, handlerLocals, calls>>
    /\ UNCHANGED <<classifierVars, mergeVars, functionVars, sessionVars>>

\* the finally block: os.unlink of every path that was assigned
Finally ==
    /\ pc = "finally"
    /\ temp_files' = temp_files \ {pdf_path, bom_path, manager_path}
    /\ pc' = "done"
    /\ UNCHANGED <<request, handlerLocals, response, calls>>
    /\ UNCHANGED <<classifierVars, mergeVars, functionVars, sessionVars>>

PipelineNext ==
    \/ SavePdf \/ SaveBom \/ SaveManager \/ CheckApiKey \/ ParseDrawing
    \/ ParseBom \/ ValidateBom \/ ParseManager \/ CallMerge \/ Respond
    \/ Finally

-----------------------------------------------------------------------------
(* excel_parser.py: calls of its functions, one call in each behaviour *)

T_MAT == <<"M","A","T",".">>
T_Body_padded == <<" ","B","o","d","y"," ">>

\* the kinds of row a components sheet holds below its header
BomRows ==
    { [name |-> B_Body, quantity |-> QInt(2), material |-> M_A350_LF2],
      [name |-> T_Body_padded, quantity |-> QText(<<"4">>), material |-> M_LF2],
      [name |-> B_Ball, quantity |-> QNone, material |-> None],
      [name |-> B_Stem, quantity |-> QInt(0), material |-> M_C45],
      [name |-> B_Bolts, quantity |-> QText(<<"x">>), material |-> M_L7MHDG],
      [name |-> None, quantity |-> QNone, material |-> M_A350_LF2_CL1],
      [name |-> None, quantity |-> QInt(5), material |-> M_CARBON_STEEL],
      [name |-> M_BLANKS, quantity |-> QNone, material |-> M_C45],
      [name |-> HeaderLabel, quantity |-> QText(<<"Q">>), material |-> T_MAT],
      [name |-> None, quantity |-> QNone, material |-> M_BLANKS],
      [name |-> None, quantity |-> QNone, material |-> None] }

\* the longest components sheet
MaxRows == 3

RECURSIVE RowsOfLength(_)
RowsOfLength(n) ==
    IF n = 0 THEN {<<>>}
    ELSE {Append(rows, row) : rows \in RowsOfLength(n - 1), row \in BomRows}

Worksheet(rows, width) ==
    [size |-> T_12_inch, asme |-> T_600, ends |-> None, width |-> width,
     rows |-> rows]

\* workbooks of one sheet wide enough for the loop to read its rows
Workbooks ==
    { [readable |-> TRUE, worksheets |-> <<Worksheet(rows, 43)>>] :
        rows \in UNION {RowsOfLength(n) : n \in 0..MaxRows} }

\* a sheet too narrow for the loop
NarrowWorkbook ==
    [readable |-> TRUE,
     worksheets |-> <<Worksheet(<<[name |-> B_Body, quantity |-> QInt(2),
                                   material |-> M_A350_LF2]>>, 42)>>]

ParseBomSheetCalls ==
    ([fn : {"parse_bom_sheet"}, workbook : Workbooks, sheet_index : {0}])
    \cup [fn : {"parse_bom_sheet"},
          workbook : {BomWorkbook, NarrowWorkbook, UnreadableWorkbook},
          sheet_index : -3..2]

T_12_quoted == <<"'","1","2","'">>
T_600_dq == <<"\"","6","0","0","\"">>
T_600_sq == <<"'","6","0","0","'">>
T_RTJ_dq == <<"\"","R","T","J","\"">>
T_RTJ_sq == <<"'","R","T","J","'">>
T_RTJ_padded == <<" ","R","T","J"," ">>

\* values of the three gating fields, on either side
SizeTexts == {None, <<>>, T_12_inch, T_12_quoted, T_8_inch}
AsmeTexts == {None, T_600, T_ASME_600, T_600_dq, T_600_sq}
EndsTexts == {None, <<>>, T_RF, T_RTJ_padded, T_RTJ_dq, T_RTJ_sq}

ValidateBomWithPdfCalls ==
    [fn : {"validate_bom_with_pdf"},
     bom_data : [size : SizeTexts, asme : AsmeTexts, ends : EndsTexts,
                 components : {<<>>}],
     pdf_size : SizeTexts,
     pdf_asme : AsmeTexts,
     pdf_ends : EndsTexts]

\* rows of a manager sheet, by the cells of columns 9, 10 and 18 to 30
ManagerRows ==
    { [size |-> T_12_inch, class |-> T_600,
       cells |-> (18 :> M_A350_LF2 @@ 20 :> M_BLANKS @@ 30 :> M_C45)],
      [size |-> T_12, class |-> T_ASME_600,
       cells |-> (17 :> M_LF2 @@ 23 :> M_A182_F316)],
      [size |-> None, class |-> T_600, cells |-> (18 :> M_C45)],
      [size |-> T_12, class |-> None, cells |-> (18 :> M_LF2)],
      [size |-> T_10, class |-> T_600, cells |-> (26 :> M_C45)],
      [size |-> T_12, class |-> T_300, cells |-> <<>>] }

\* the longest manager sheet
MaxManagerRows == 3

RECURSIVE ManagerRowsOfLength(_)
ManagerRowsOfLength(n) ==
    IF n = 0 THEN {<<>>}
    ELSE {Append(rows, row) :
            rows \in ManagerRowsOfLength(n - 1), row \in ManagerRows}

ManagerWorkbooks ==
    { [readable |-> TRUE, width |-> width, rows |-> rows] :
        width \in {29, 30},
        rows \in UNION {ManagerRowsOfLength(n) : n \in 0..MaxManagerRows} }
    \cup {UnreadableWorkbook}

ParseManagerSheetCalls ==
    [fn : {"parse_manager_sheet"},
     workbook : ManagerWorkbooks,
     target_size : {None, T_12_inch, T_8_inch},
     target_asme : {None, T_600, T_ASME_600}]

\* names of candidates of the name matcher
CandidateNames ==
    {B_Body, B_Ball, B_Seat_Rings, B_Seat_Ring, B_Rings_Seat, B_Bolts,
     K_Seat_inserts}

\* the most candidates of a call
MaxCandidates == 3

\* the sequences of n candidate names, each name once, in every order
RECURSIVE NamesOfLength(_)
NamesOfLength(n) ==
    IF n = 0 THEN {<<>>}
    ELSE UNION { {Append(names, name) : name \in CandidateNames \ Range(names)} :
                   names \in NamesOfLength(n - 1) }

CandidateSequences == UNION {NamesOfLength(n) : n \in 0..MaxCandidates}

\* descriptions the matcher is asked about
Queries ==
    {D_Body, D_BALL, D_Seat_Ring, D_Rings_Seat, D_Seat_Insert, D_Bolt, D_Stem}

FindMatchingManagerColumnCalls ==
    [fn : {"find_matching_manager_column"},
     pdf_description : Queries \cup {T_Body_padded},
     manager_materials :
        { [i \in DOMAIN names |-> <<names[i], M_A350_LF2>>] :
            names \in CandidateSequences }]

FindMatchingBomCalls ==
    [fn : {"find_matching_bom"},
     description : Queries,
     bom_components :
        { [i \in DOMAIN names |->
             <<names[i], [quantity |-> <<i>>, material |-> M_A350_LF2]>>] :
            names \in CandidateSequences }]

FunctionCalls ==
    ParseBomSheetCalls \cup ValidateBomWithPdfCalls \cup ParseManagerSheetCalls
    \cup FindMatchingManagerColumnCalls \cup FindMatchingBomCalls

FunctionInit ==
    /\ function = "none"
    /\ arguments \in FunctionCalls
    /\ outcome = <<>>

\* wb = openpyxl.load_workbook(...); ws = wb.worksheets[sheet_index], then
\* the cells of row 28 and the state of the loop before its first row
LoadBomSheet ==
    /\ function = "none"
    /\ arguments.fn = "parse_bom_sheet"
    /\ function' = "parse_bom_sheet"
    /\ LET workbook == arguments.workbook
           sheet_index == arguments.sheet_index
       IN  IF ~workbook.readable
           THEN outcome' = Raised("InvalidFileException")
           ELSE IF ~ValidIndex(Len(workbook.worksheets), sheet_index)
           THEN outcome' = Raised("IndexError")
           ELSE outcome' =
                  [ws |-> workbook.worksheets[
                              ListIndex(Len(workbook.worksheets), sheet_index)],
                   row |-> 1,
                   components |-> <<>>,
                   last_component_name |-> None]
    /\ UNCHANGED arguments
    /\ UNCHANGED <<classifierVars, mergeVars, pipelineVars, sessionVars>>

\* whether parse_bom_sheet is inside its loop
Scanning == function = "parse_bom_sheet" /\ "row" \in DOMAIN outcome

\* one iteration of the loop of parse_bom_sheet
ScanRow ==
    /\ Scanning
    /\ outcome.row <= Len(scanned_rows(outcome.ws))
    /\ LET next == scan_row(scanned_rows(outcome.ws)[outcome.row],
                           outcome.components, outcome.last_component_name)
       IN  outcome' = [outcome EXCEPT
                        !.row = @ + 1,
                        !.components = next.components,
                        !.last_component_name = next.last_component_name]
    /\ UNCHANGED <<function, arguments>>
    /\ UNCHANGED <<classifierVars, mergeVars, pipelineVars, sessionVars>>

\* the return statement of parse_bom_sheet
ReturnBomSheet ==
    /\ Scanning
    /\ outcome.row > Len(scanned_rows(outcome.ws))
    /\ outcome' = Returned([size |-> cell_text(outcome.ws.size),
                           asme |-> cell_text(outcome.ws.asme),
                           ends |-> cell_text(outcome.ws.ends),
                           components |-> outcome.components])
    /\ UNCHANGED <<function, arguments>>
    /\ UNCHANGED <<classifierVars, mergeVars, pipelineVars, sessionVars>>

ValidateBomWithPdf ==
    /\ function = "none"
    /\ arguments.fn = "validate_bom_with_pdf"
    /\ function' = "validate_bom_with_pdf"
    /\ outcome' = Returned(validate_bom_with_pdf(arguments.bom_data,
                                                arguments.pdf_size,
                                                arguments.pdf_asme,
                                                arguments.pdf_ends))
    /\ UNCHANGED arguments
    /\ UNCHANGED <<classifierVars, mergeVars, pipelineVars, sessionVars>>

ParseManagerSheet ==
    /\ function = "none"
    /\ arguments.fn = "parse_manager_sheet"
    /\ function' = "parse_manager_sheet"
    /\ outcome' = parse_manager_sheet(arguments.workbook, arguments.target_size,
                                     arguments.target_asme)
    /\ UNCHANGED arguments
    /\ UNCHANGED <<classifierVars, mergeVars, pipelineVars, sessionVars>>

FindMatchingManagerColumn ==
    /\ function = "none"
    /\ arguments.fn = "find_matching_manager_column"
    /\ function' = "find_matching_manager_column"
    /\ outcome' = Returned(find_matching_manager_column(
                              arguments.pdf_description,
                              arguments.manager_materials))
    /\ UNCHANGED arguments
    /\ UNCHANGED <<classifierVars, mergeVars, pipelineVars, sessionVars>>

\* the search of merge_all_data for the components-sheet entry of a
\* drawing description
FindMatchingBom ==
    /\ function = "none"
    /\ arguments.fn = "find_matching_bom"
    /\ function' = "find_matching_bom"
    /\ outcome' = Returned(find_matching_bom(arguments.description,
                                            arguments.bom_components))
    /\ UNCHANGED arguments
    /\ UNCHANGED <<classifierVars, mergeVars, pipelineVars, sessionVars>>

FunctionNext ==
    \/ LoadBomSheet
    \/ ScanRow
    \/ ReturnBomSheet
    \/ ValidateBomWithPdf
    \/ ParseManagerSheet
    \/ FindMatchingManagerColumn
    \/ FindMatchingBom
-----------------------------------------------------------------------------
(* A process making several calls in turn, all reading MATERIAL_SYNONYMS *)

\* a table whose variants check_synonyms has replaced by their normalized
\* forms
check_synonyms_table_in_place(table) ==
    [base_name \in DOMAIN table |->
        [i \in DOMAIN table[base_name] |-> normalize(table[base_name][i])]]

\* the global table after a call of check_synonyms: the function builds a
\* new list of normalized variants for each entry and assigns nothing to
\* the table
check_synonyms_table(table) == table

\* the materials of the calls of a session
SessionMaterials == {M_GRAPHITE, M_graf, M_A320_L7M, M_XM_19}

\* the arguments of its merges
SessionMerges ==
    { <<[table1 |-> <<>>, table2 |-> <<I_Body>>],
        <<BomEntry(B_Body, 2, M_A350_LF2)>>,
        <<<<K_Gland, M_A479_S20910>>>>>>,
      <<[table1 |-> <<>>, table2 |-> <<I_Bolt, I_Stem_padded>>],
        <<BomEntry(B_Bolts, 8, M_L7MHDG)>>,
        <<<<K_Stem, M_XM19HR>>>>>> }

\* the most calls of a session
MaxCalls == 2

SessionInit ==
    /\ synonym_table = MATERIAL_SYNONYMS
    /\ session = <<>>

\* the record of a call
Call(fn, args, value) == [fn |-> fn, args |-> args, ret |-> value]

SessionNormalize ==
    /\ Len(session) < MaxCalls
    /\ \E text \in SessionMaterials :
          session' = Append(session, Call("normalize", <<text>>, normalize(text)))
    /\ UNCHANGED synonym_table
    /\ UNCHANGED <<classifierVars, mergeVars, pipelineVars, functionVars>>

SessionExtractTokens ==
    /\ Len(session) < MaxCalls
    /\ \E text \in SessionMaterials :
          session' = Append(session, Call("extract_tokens", <<text>>,
                                          extract_tokens(text)))
    /\ UNCHANGED synonym_table
    /\ UNCHANGED <<classifierVars, mergeVars, pipelineVars, functionVars>>

SessionCheckSynonyms ==
    /\ Len(session) < MaxCalls
    /\ \E mat1 \in SessionMaterials, mat2 \in SessionMaterials :
          session' = Append(session, Call("check_synonyms", <<mat1, mat2>>,
                                          check_synonyms(mat1, mat2)))
    /\ synonym_table' = check_synonyms_table(synonym_table)
    /\ UNCHANGED <<classifierVars, mergeVars, pipelineVars, functionVars>>

\* smart_material_match calls check_synonyms when the normalized texts
\* differ
SessionSmartMaterialMatch ==
    /\ Len(session) < MaxCalls
    /\ \E mat1 \in SessionMaterials, mat2 \in SessionMaterials :
          /\ session' = Append(session, Call("smart_material_match", <<mat1, mat2>>,
                                             smart_material_match(mat1, mat2)))
          /\ synonym_table' =
                IF normalize(mat1) # normalize(mat2)
                THEN check_synonyms_table(synonym_table)
                ELSE synonym_table
    /\ UNCHANGED <<classifierVars, mergeVars, pipelineVars, functionVars>>

\* merge_all_data calls smart_material_match for the rows it compares
SessionMergeAllData ==
    /\ Len(session) < MaxCalls
    /\ \E merge \in SessionMerges :
          session' = Append(session, Call("merge_all_data", merge,
                                          merge_all_data(merge[1], merge[2], merge[3])))
    /\ synonym_table' = check_synonyms_table(synonym_table)
    /\ UNCHANGED <<classifierVars, mergeVars, pipelineVars, functionVars>>

SessionNext ==
    \/ SessionNormalize
    \/ SessionExtractTokens
    \/ SessionCheckSynonyms
    \/ SessionSmartMaterialMatch
    \/ SessionMergeAllData
-----------------------------------------------------------------------------
(* Properties of the request pipeline *)

ValidationFailed == Called("validate_bom_with_pdf") /\ ~validation.valid

\* C1: in a run in which validate_bom_with_pdf returned valid = false,
\* merge_all_data is never invoked: the run ends with a failure response
\* before the manager sheet is parsed and before any merge.
FailedValidationStopsRun ==
    ValidationFailed =>
        /\ ~Called("parse_manager_sheet")
        /\ ~Called("merge_all_data")
        /\ merge_call = "none"
        /\ pc \in {"finally", "done"}
        /\ response.success = FALSE

\* a run that failed validation has returned
FailedValidationReached ==
    /\ pc = "done"
    /\ ValidationFailed
    /\ Len(validation.errors) > 0
    /\ response.success = FALSE

-----------------------------------------------------------------------------
(* Properties of the classifier *)

Matched == call = "smart_material_match"

\* the synonym entries as sets of normalized variants
SynonymClasses ==
    {{normalize(MATERIAL_SYNONYMS[base_name][i]) :
         i \in DOMAIN MATERIAL_SYNONYMS[base_name]} :
       base_name \in DOMAIN MATERIAL_SYNONYMS}

\* both texts, normalized, are variants of one entry of the synonym table
SameSynonymEntry(a, b) ==
    \E class \in SynonymClasses : normalize(a) \in class /\ normalize(b) \in class

DistinctStandardsNotEqual ==
    (Matched /\ material1 = M_A320_L7M /\ material2 = M_A350_L7M) =>
        ret = <<FALSE, "none">>

\* C8: normalize is idempotent: normalizing its result again changes nothing.
NormalizeIdempotent ==
    call = "normalize" => normalize(ret) = ret

\* C9: smart_material_match is symmetric: swapping the arguments gives the
\* same verdict and the same method.
MatchSymmetric ==
    Matched => ret = smart_material_match(material2, material1)

\* a pair of different variants, one of them changed by normalize, matched
\* by the synonym step
SynonymPairReached ==
    /\ Matched
    /\ material1 = M_F316_L
    /\ material2 = M_S316L
    /\ ret = <<TRUE, "synonym">>

\* C10: the result is (false, "empty") when either input is empty or null,
\* whatever the other is, and the method is "empty" in no other case.
EmptyRule ==
    Matched =>
        IF ~Truthy(material1) \/ ~Truthy(material2)
        THEN ret = <<FALSE, "empty">>
        ELSE ret[2] # "empty"

\* a null first input against a non-empty second one answers "empty"
EmptyAgainstTextReached ==
    /\ Matched
    /\ material1 = None
    /\ Truthy(material2)
    /\ ret = <<FALSE, "empty">>

-----------------------------------------------------------------------------
(* Properties of the merge *)

Merged == merge_call = "merge_all_data"

\* the rows of table2 before and after the merge
RowsIn == table2_of(drawing)
RowsOut == table2_of(pdf_data)

\* the rows the loop of merge_all_data processes
Processed == {i \in DOMAIN RowsIn : item_description(RowsIn[i]) # <<>>}

IsNew(item) == "status" \in DOMAIN item /\ item.status = "new"

\* the drawing material of a merged row was judged equal to the comparison
\* material m
Agrees(row, m) ==
    Truthy(row.material) /\ Truthy(m) /\ smart_material_match(row.material, m)[1]

\* C2: the status of a processed drawing component is "equal" if its
\* material matches the components-sheet or the manager material, else
\* "notEqual" if one of the two comparison materials is non-empty, else
\* "equal".
StatusDecision ==
    Merged =>
        \A i \in Processed :
            LET row == RowsOut[i]
                bomMatch == Agrees(row, row.bom_material)
                managerMatch == Agrees(row, row.order_material)
            IN  row.status =
                    IF bomMatch \/ managerMatch THEN "equal"
                    ELSE IF Truthy(row.bom_material) \/ Truthy(row.order_material)
                         THEN "notEqual"
                         ELSE "equal"

\* one merge yields a disagreeing component and a component that is
\* "equal" only because no comparison material exists
StatusBranchesReached ==
    /\ Merged
    /\ \E i \in Processed : RowsOut[i].status = "notEqual"
    /\ \E i \in Processed :
          /\ RowsOut[i].status = "equal"
          /\ RowsOut[i].bom_material = None
          /\ RowsOut[i].order_material = None

\* C3: for every drawing input and every manager mapping, a category that
\* no processed drawing component matched is appended exactly once as a
\* "new" record with the category as description, and a category that some
\* component matched is not appended.
UnmatchedCategoriesAppended ==
    Merged =>
        \A k \in DOMAIN manager_materials :
            LET column == manager_materials[k][1]
                matched == \E i \in Processed :
                    used_manager_column(RowsIn[i], manager_materials) = column
                appended == {j \in DOMAIN RowsOut :
                                /\ j > Len(RowsIn)
                                /\ IsNew(RowsOut[j])
                                /\ RowsOut[j].description = column}
            IN  Cardinality(appended) = IF matched THEN 0 ELSE 1

\* C4: a "new" record of the merge output has an empty position, no
\* quantity, no bomMaterial, and a non-empty orderMaterial equal to its
\* material.
NewRecordShape ==
    Merged =>
        \A j \in DOMAIN RowsOut :
            IsNew(RowsOut[j]) =>
                /\ RowsOut[j].pos = <<>>
                /\ RowsOut[j].quantity = NoQuantity
                /\ RowsOut[j].bom_material = None
                /\ Truthy(RowsOut[j].order_material)
                /\ RowsOut[j].order_material = RowsOut[j].material

\* the merge appended a "new" record after a processed drawing component
NewRecordReached ==
    /\ Merged
    /\ Processed # {}
    /\ \E j \in DOMAIN RowsOut : IsNew(RowsOut[j])

\* C5: the merge output holds the drawing components in their order and
\* number, then the "new" records: no "new" record precedes a drawing
\* component.
DrawingRowsKeptInOrder ==
    Merged =>
        /\ Len(RowsOut) >= Len(RowsIn)
        /\ \A i \in DOMAIN RowsIn :
              /\ RowsOut[i].pos = RowsIn[i].pos
              /\ RowsOut[i].description = RowsIn[i].description
              /\ ~IsNew(RowsOut[i])
        /\ \A j \in DOMAIN RowsOut : j > Len(RowsIn) => IsNew(RowsOut[j])

\* two different drawing components, one of them skipped by the loop,
\* followed by appended records
RowsThenNewReached ==
    /\ Merged
    /\ Len(RowsIn) = 2
    /\ RowsIn[1] = I_Blank
    /\ RowsIn[2] = I_Body
    /\ Len(RowsOut) > 2


(* Claims on the functions of excel_parser.py *)

\* the function under call has returned (not raised) in this state
ReturnedFrom(name) ==
    /\ function = name
    /\ "raised" \in DOMAIN outcome
    /\ ~outcome.raised

\* a occurs in b as a run of consecutive characters
Within(a, b) ==
    \E i \in 0..Len(b) : \E j \in i..Len(b) : SubSeq(b, i + 1, j) = a

\* the number of messages of a list of errors about a field
MessagesAbout(errors, field) ==
    Cardinality({i \in DOMAIN errors : errors[i][1] = field})

\* the two values of a gating field of the call, normalized as the function
\* normalizes them
NormalizedPair(field) ==
    CASE field = "SIZE" -> <<clean_size(arguments.bom_data.size),
                             clean_size(arguments.pdf_size)>>
      [] field = "ASME" -> <<clean_text(arguments.bom_data.asme),
                             clean_text(arguments.pdf_asme)>>
      [] field = "ENDS" -> <<clean_text(arguments.bom_data.ends),
                             clean_text(arguments.pdf_ends)>>

FieldAccepted(field) ==
    \/ Within(NormalizedPair(field)[1], NormalizedPair(field)[2])
    \/ Within(NormalizedPair(field)[2], NormalizedPair(field)[1])

\* C11: validate_bom_with_pdf accepts a field iff one of its two normalized
\* values is a substring of the other, reports exactly one message for each
\* field it does not accept and none for a field it accepts, and returns
\* valid = true iff the list of errors is empty.
ValidationContract ==
    ReturnedFrom("validate_bom_with_pdf") =>
        LET r == outcome.value
        IN  /\ \A field \in {"SIZE", "ASME", "ENDS"} :
                 MessagesAbout(r.errors, field) =
                     IF FieldAccepted(field) THEN 0 ELSE 1
            /\ \A i \in DOMAIN r.errors : r.errors[i][1] \in {"SIZE", "ASME", "ENDS"}
            /\ r.valid <=> (r.errors = <<>>)

\* a call where the class passes because the drawing's value carries a
\* prefix the sheet's lacks, the size passes after quote stripping, and the
\* ends fail alone
OneFieldRejectedReached ==
    /\ ReturnedFrom("validate_bom_with_pdf")
    /\ arguments.bom_data.asme = T_600
    /\ arguments.pdf_asme = T_ASME_600
    /\ arguments.bom_data.size = T_12_inch
    /\ arguments.pdf_size = T_12_quoted
    /\ Len(outcome.value.errors) = 1
    /\ outcome.value.errors[1][1] = "ENDS"
    /\ ~outcome.value.valid

\* the row the loop of parse_bom_sheet is about to read
CurrentRow == scanned_rows(outcome.ws)[outcome.row]

AtRow == Scanning /\ outcome.row <= Len(scanned_rows(outcome.ws))

\* a cell that is empty, or holds nothing but whitespace
EmptyCell(cell) == cell = None \/ cell = <<>> \/ strip(cell) = <<>>

IsContinuationRow(row) == EmptyCell(row.name) /\ ~EmptyCell(row.material)

IsComponentRow(row) == ~EmptyCell(row.name) /\ strip(row.name) # HeaderLabel

\* the entry of a component in a components mapping
EntryOf(components, name) ==
    components[CHOOSE i \in DOMAIN components : components[i][1] = name][2]

\* C12: when the loop of parse_bom_sheet reads a row with an empty name cell
\* and a non-empty material cell while a component is current, the step
\* sets the material of the current component to that row's text and
\* changes nothing else: the same components in the same order, every
\* quantity and every other material as before, the same current component.
\* A run of such rows therefore leaves the text of its last row.
ContinuationOverwritesMaterial ==
    [][ (AtRow /\ IsContinuationRow(CurrentRow)
           /\ outcome.last_component_name # None) =>
          LET before == outcome.components
              after == outcome'.components
              current == outcome.last_component_name
          IN  /\ outcome'.last_component_name = current
              /\ Len(after) = Len(before)
              /\ \A i \in DOMAIN before :
                    /\ after[i][1] = before[i][1]
                    /\ after[i][2].quantity = before[i][2].quantity
                    /\ after[i][2].material =
                          IF before[i][1] = current
                          THEN strip(CurrentRow.material)
                          ELSE before[i][2].material ]_vars

\* Body followed by two continuation rows: Body holds the text of the
\* second
TwoContinuationsReached ==
    /\ Scanning
    /\ outcome.row = 4
    /\ LET rows == scanned_rows(outcome.ws)
       IN  /\ rows[1].name = B_Body
           /\ IsContinuationRow(rows[2])
           /\ IsContinuationRow(rows[3])
           /\ rows[2].material # rows[3].material
           /\ rows[1].material # rows[3].material
           /\ outcome.components =
                 <<<<B_Body, [quantity |-> <<2>>,
                              material |-> strip(rows[3].material)]>>>>

\* the entries of a components mapping other than the one of a name
OtherEntries(components, name) ==
    SelectSeq(components, LAMBDA entry : entry[1] # name)

\* C13: the loop of parse_bom_sheet starts with no current component and an
\* empty mapping; a row with a name other than the header label records
\* that component and makes it current, leaving the other components as
\* they were; a continuation row read while no component is current changes
\* nothing; and every row that is neither (the header, an empty row)
\* changes nothing.
ScannerIsTwoStateMachine ==
    [][ /\ (function = "none" /\ function' = "parse_bom_sheet"
              /\ "row" \in DOMAIN outcome') =>
               /\ outcome'.last_component_name = None
               /\ outcome'.components = <<>>
        /\ (AtRow /\ IsComponentRow(CurrentRow)) =>
               LET name == strip(CurrentRow.name)
               IN  /\ outcome'.last_component_name = name
                   /\ name \in Keys(outcome'.components)
                   /\ EntryOf(outcome'.components, name).material =
                          IF EmptyCell(CurrentRow.material) THEN <<>>
                          ELSE strip(CurrentRow.material)
                   /\ OtherEntries(outcome'.components, name) =
                          OtherEntries(outcome.components, name)
        /\ (AtRow /\ IsContinuationRow(CurrentRow)
              /\ outcome.last_component_name = None) =>
               /\ outcome'.components = outcome.components
               /\ outcome'.last_component_name = None
        /\ (AtRow /\ ~IsComponentRow(CurrentRow)
              /\ ~IsContinuationRow(CurrentRow)) =>
               /\ outcome'.components = outcome.components
               /\ outcome'.last_component_name = outcome.last_component_name
      ]_vars

\* a continuation row read first and skipped, then a header row skipped,
\* then a component recorded and current
SkippedThenRecordedReached ==
    /\ Scanning
    /\ outcome.row = 4
    /\ LET rows == scanned_rows(outcome.ws)
       IN  /\ IsContinuationRow(rows[1])
           /\ rows[2].name = HeaderLabel
           /\ IsComponentRow(rows[3])
           /\ outcome.last_component_name = strip(rows[3].name)
           /\ Len(outcome.components) = 1

\* the sheet index of the call designates one of the workbook's sheets:
\* the indexes 0 to n - 1 of a workbook of n sheets
DesignatesSheet ==
    /\ arguments.sheet_index >= 0
    /\ arguments.sheet_index < Len(arguments.workbook.worksheets)

\* C14: a call of parse_bom_sheet on a readable workbook with a sheet index
\* that designates none of its sheets, a negative one included, raises and
\* returns no record.
InvalidSheetIndexRaises ==
    (/\ function = "parse_bom_sheet"
     /\ arguments.workbook.readable
     /\ ~DesignatesSheet) =>
        ~ReturnedFrom("parse_bom_sheet")

\* the rows of the manager sheet of the call, rows 15 on
SheetRows == arguments.workbook.rows

\* the normalized targets and the normalized cells of a row: quotes
\* stripped from the sizes, whitespace trimmed, an absent value empty
TargetSize == clean_size(arguments.target_size)
TargetClass == clean_text(arguments.target_asme)
RowSize(row) == clean_size(row.size)
RowClass(row) == clean_text(row.class)

\* both normalized values of the row contain the normalized targets
ContainsTargets(row) ==
    Within(TargetSize, RowSize(row)) /\ Within(TargetClass, RowClass(row))

\* the category columns of a row that hold a text other than whitespace, as
\* <<category, text>>
FilledCategories(row) ==
    { <<component_columns[k][2], strip(row.cells[component_columns[k][1]])>> :
        k \in { j \in DOMAIN component_columns :
                  /\ component_columns[j][1] \in DOMAIN row.cells
                  /\ ~EmptyCell(row.cells[component_columns[j][1]]) } }

\* the call returns the first of the given rows, or found = false if there
\* is none; the materials in the order of the columns
ReturnsFirstOf(qualifying) ==
    LET r == outcome.value
    IN  IF qualifying = {}
        THEN r.found = FALSE
        ELSE LET i == CHOOSE i \in qualifying : \A j \in qualifying : i <= j
             IN  /\ r.found
                 /\ r.row = FirstManagerRow + i - 1
                 /\ Range(r.materials) = FilledCategories(SheetRows[i])
                 /\ Len(r.materials) = Cardinality(FilledCategories(SheetRows[i]))

\* C15 as stated: parse_manager_sheet returns the lowest-numbered scanned
\* row whose normalized size and class contain the normalized targets, with
\* the non-empty cells of columns 18 to 30, and found = false if no row
\* does.
FirstContainingRowReturned ==
    ReturnedFrom("parse_manager_sheet") =>
        ReturnsFirstOf({i \in DOMAIN SheetRows : ContainsTargets(SheetRows[i])})

\* C15, amended: parse_manager_sheet returns the lowest-numbered scanned
\* row that has a size cell and a class cell, both non-empty, in a sheet at
\* least 30 columns wide, and whose normalized size and class contain the
\* normalized targets, with the non-empty cells of columns 18 to 30; it
\* returns found = false, without raising, if no row does.
FirstFilledContainingRowReturned ==
    /\ (function = "parse_manager_sheet" /\ arguments.workbook.readable) =>
          ReturnedFrom("parse_manager_sheet")
    /\ ReturnedFrom("parse_manager_sheet") =>
          ReturnsFirstOf({i \in DOMAIN SheetRows :
                            /\ arguments.workbook.width >= ManagerRowWidth
                            /\ Truthy(SheetRows[i].size)
                            /\ Truthy(SheetRows[i].class)
                            /\ ContainsTargets(SheetRows[i])})

\* a row without a size skipped under an empty target size, the next row
\* returned without its blank Gland cell
SecondRowReturnedReached ==
    /\ ReturnedFrom("parse_manager_sheet")
    /\ arguments.target_size = None
    /\ arguments.target_asme = T_600
    /\ Len(SheetRows) = 2
    /\ SheetRows[1].size = None
    /\ SheetRows[1].class = T_600
    /\ 20 \in DOMAIN SheetRows[2].cells
    /\ outcome.value.found
    /\ outcome.value.row = 16
    /\ outcome.value.materials = <<<<K_Body, M_A350_LF2>>, <<K_Springs, M_C45>>>>

(* Claims on the parse-pdf request, continued *)

\* the request has left the handler, by a return or by an exception
Exited == pc \in {"done", "raised"}

\* C16: whenever a parse-pdf request has left the handler, by its normal
\* return, the missing-key return, the validation-gate return or an
\* exception, one raised while the uploads are being saved included, none
\* of the temporary files created for it exists any more.
TempFilesDeletedOnEveryExit == Exited => temp_files = {}

(* Claims on the name matcher *)

\* the query and the candidates of the matcher call, and its threshold
Query ==
    IF arguments.fn = "find_matching_manager_column"
    THEN strip(lower(arguments.pdf_description))
    ELSE lower(arguments.description)

Candidates ==
    IF arguments.fn = "find_matching_manager_column"
    THEN arguments.manager_materials
    ELSE arguments.bom_components

Threshold ==
    IF arguments.fn = "find_matching_manager_column"
    THEN ManagerThreshold ELSE BomThreshold

MatcherReturned ==
    \/ ReturnedFrom("find_matching_manager_column")
    \/ ReturnedFrom("find_matching_bom")

\* the candidates whose name equals the query, letter case aside
ExactCandidates == {i \in DOMAIN Candidates : lower(Candidates[i][1]) = Query}

\* the exact-match step of the manager matcher alone
ManagerExactMatchReturned ==
    (ReturnedFrom("find_matching_manager_column") /\ ExactCandidates # {}) =>
        \E i \in ExactCandidates : outcome.value = Candidates[i]

\* C17: when the query equals the name of a candidate, letter case aside,
\* the matcher returns that candidate, for manager categories and for the
\* components sheet alike, whatever the scores of the candidates before it.
ExactMatchReturned ==
    (MatcherReturned /\ ExactCandidates # {}) =>
        \E i \in ExactCandidates : outcome.value = Candidates[i]

\* the similarity of the query and a candidate
Score(i) == token_sort_ratio(Query, lower(Candidates[i][1]))

\* the candidates of maximum score, if that score reaches the threshold
BestCandidates ==
    {i \in DOMAIN Candidates :
        /\ Score(i) >= Threshold
        /\ \A j \in DOMAIN Candidates : Score(j) <= Score(i)}

\* C18: when no candidate's name equals the query, the matcher returns the
\* candidate of maximum similarity if that maximum reaches the threshold
\* (80 for manager categories, 70 for the components sheet), the first in
\* the mapping's order among those of maximum similarity, and
\* (None, None) if no candidate reaches the threshold.
BestCandidateReturned ==
    (MatcherReturned /\ ExactCandidates = {}) =>
        IF BestCandidates = {}
        THEN outcome.value = NoMatch
        ELSE outcome.value =
               Candidates[CHOOSE i \in BestCandidates :
                             \A j \in BestCandidates : i <= j]

\* "Seat Ring" against "Bolts", "Rings Seat" and "Seat Rings": the last two
\* tie at 95 and the first of them is returned
TieReturnsFirstReached ==
    /\ ReturnedFrom("find_matching_manager_column")
    /\ arguments.pdf_description = D_Seat_Ring
    /\ Len(Candidates) = 3
    /\ Candidates[1][1] = B_Bolts
    /\ Candidates[2][1] = B_Rings_Seat
    /\ Candidates[3][1] = B_Seat_Rings
    /\ Score(2) = Score(3)
    /\ outcome.value[1] = B_Rings_Seat

(* Claims on merge_all_data, continued *)

\* the components-sheet entry and the manager category that the merge
\* matched to a drawing row
MatchedBom(row) == find_matching_bom(item_description(row), bom_components)
MatchedManager(row) ==
    find_matching_manager_column(item_description(row), manager_materials)

\* C19: for every drawing row the merge processes, the output row has the
\* drawing's own material (trimmed) whatever the other sources hold, the
\* material of the matched components-sheet entry as bom_material (null if
\* none matched or it is empty), the material of the matched manager
\* category as order_material (null if none), the quantity of the matched
\* components-sheet entry (null if none matched, whatever quantity the
\* drawing row carried), a null manager_quantity, and the note it had, or
\* an empty note.
MergedFieldsPopulated ==
    Merged =>
        \A i \in Processed :
            LET in == RowsIn[i]
                out == RowsOut[i]
                bom == MatchedBom(in)
                manager == MatchedManager(in)
            IN  /\ out.material = strip(in.material)
                /\ out.bom_material =
                      IF bom = NoMatch \/ bom[2].material = <<>>
                      THEN None ELSE bom[2].material
                /\ out.order_material =
                      IF manager = NoMatch THEN None ELSE manager[2]
                /\ out.quantity =
                      IF bom = NoMatch THEN NoQuantity ELSE bom[2].quantity
                /\ out.manager_quantity = NoQuantity
                /\ out.note = IF "note" \in DOMAIN in THEN in.note ELSE <<>>

\* the padded Stem row, which carried quantity 3 and no note, merged with a
\* components sheet without Stem and a manager mapping with Stem: its own
\* material trimmed, no quantity, the manager's material as order_material
DrawingMaterialKeptReached ==
    /\ Merged
    /\ Len(RowsIn) = 2
    /\ RowsIn[1] = I_Stem_padded
    /\ RowsIn[2] = I_Body
    /\ MatchedBom(RowsIn[1]) = NoMatch
    /\ MatchedManager(RowsIn[1]) = <<K_Stem, M_XM19HR>>
    /\ RowsOut[1].material = M_XM19HR
    /\ RowsOut[1].quantity = NoQuantity
    /\ RowsOut[1].order_material = M_XM19HR
    /\ RowsOut[1].note = <<>>
    /\ RowsOut[2].quantity = <<0>>
    /\ RowsOut[2].bom_material = M_C45
    /\ RowsOut[2].material = M_A350_LF2_CL1

(* Claims on validate_bom_with_pdf, continued *)

\* the two values of a gating field of the call
FieldValues(field) ==
    CASE field = "SIZE" -> <<arguments.bom_data.size, arguments.pdf_size>>
      [] field = "ASME" -> <<arguments.bom_data.asme, arguments.pdf_asme>>
      [] field = "ENDS" -> <<arguments.bom_data.ends, arguments.pdf_ends>>

\* a value with the quote characters stripped and the whitespace trimmed,
\* null taken as the empty text
QuoteStripped(text) ==
    IF text = None THEN <<>>
    ELSE strip(SelectSeq(text, LAMBDA c : c \notin {"\"", "'"}))

\* C20: validate_bom_with_pdf compares each of the three gating fields
\* after stripping the quote characters and trimming the whitespace of
\* both values, null taken as the empty text: a field is reported exactly
\* when neither value so normalized contains the other.
EveryFieldQuoteStripped ==
    ReturnedFrom("validate_bom_with_pdf") =>
        \A field \in {"SIZE", "ASME", "ENDS"} :
            LET a == QuoteStripped(FieldValues(field)[1])
                b == QuoteStripped(FieldValues(field)[2])
            IN  MessagesAbout(outcome.value.errors, field) =
                    IF Within(a, b) \/ Within(b, a) THEN 0 ELSE 1

\* the same for the size alone, the field whose quotes the function strips
SizeQuoteStripped ==
    ReturnedFrom("validate_bom_with_pdf") =>
        LET a == QuoteStripped(FieldValues("SIZE")[1])
            b == QuoteStripped(FieldValues("SIZE")[2])
        IN  MessagesAbout(outcome.value.errors, "SIZE") =
                IF Within(a, b) \/ Within(b, a) THEN 0 ELSE 1

(* Claims on the classifier, continued *)

\* both texts are listed, as written, under one entry of MATERIAL_SYNONYMS
ListedTogether(a, b) ==
    \E base_name \in DOMAIN MATERIAL_SYNONYMS :
        /\ a \in Range(MATERIAL_SYNONYMS[base_name])
        /\ b \in Range(MATERIAL_SYNONYMS[base_name])

\* C21: two variants listed under the same synonym entry whose normalized
\* forms differ are classified (true, "synonym") by smart_material_match;
\* GRAPHITE and GRAF are such a pair.
ListedVariantsAreSynonyms ==
    /\ ListedTogether(M_GRAPHITE, M_GRAF)
    /\ normalize(M_GRAPHITE) # normalize(M_GRAF)
    /\ (/\ Matched
        /\ ListedTogether(material1, material2)
        /\ normalize(material1) # normalize(material2)) =>
           ret = <<TRUE, "synonym">>

\* GRAPHITE against GRAF classified by the synonym step
GraphiteGrafReached ==
    /\ Matched
    /\ material1 = M_GRAPHITE
    /\ material2 = M_GRAF
    /\ ret = <<TRUE, "synonym">>

\* the text extract_tokens looks for tokens in
NormalizedText == IF Truthy(material1) THEN normalize(material1) ELSE <<>>

LetterOrDigit(c) == c \in Range(UpperLetters) \cup Digits

\* the maximal runs of letters and digits of a text, as <<first, last>>
MaximalRuns(s) ==
    { run \in (DOMAIN s) \X (DOMAIN s) :
        /\ run[1] <= run[2]
        /\ \A k \in run[1]..run[2] : LetterOrDigit(s[k])
        /\ (run[1] = 1 \/ ~LetterOrDigit(s[run[1] - 1]))
        /\ (run[2] = Len(s) \/ ~LetterOrDigit(s[run[2] + 1])) }

HasDigit(token) == \E k \in DOMAIN token : token[k] \in Digits

\* C22: extract_tokens returns exactly the maximal letter/digit runs of the
\* normalized text that contain a digit and have two characters or more,
\* or have three characters or more: no token of one character, no token
\* of two characters without a digit, and every token of three or more.
SignificantTokensExactly ==
    call = "extract_tokens" =>
        LET s == NormalizedText
            tokens == {SubSeq(s, run[1], run[2]) : run \in MaximalRuns(s)}
        IN  /\ ret = {t \in tokens : (HasDigit(t) /\ Len(t) >= 2) \/ Len(t) >= 3}
            /\ \A t \in tokens :
                  /\ Len(t) = 1 => t \notin ret
                  /\ (Len(t) = 2 /\ ~HasDigit(t)) => t \notin ret
                  /\ Len(t) >= 3 => t \in ret

\* "GR 7M/x": GR is dropped, 7M kept, X dropped
TwoCharacterTokensReached ==
    /\ call = "extract_tokens"
    /\ material1 = M_GR_7M_X
    /\ ret = {<<"7","M">>}

(* Claims on parse_bom_sheet, continued *)

\* the row the loop of parse_bom_sheet has just read
PreviousRow == scanned_rows(outcome.ws)[outcome.row - 1]

AfterRow == Scanning /\ outcome.row > 1

\* the integer a quantity cell holds or spells, 1 if it is absent or does
\* not parse
QuantityOfCell(cell) ==
    CASE cell.kind = "none" -> 1
      [] cell.kind = "int" -> cell.value
      [] cell.kind = "text" ->
            IF IsIntText(cell.value) THEN IntOfText(cell.value) ELSE 1

\* C23: the quantity recorded for a component row is the integer value of
\* its quantity cell when the cell is present and parses as an integer,
\* zero included, and 1 when the cell is absent or does not parse.
QuantityIsCellValue ==
    (AfterRow /\ IsComponentRow(PreviousRow)) =>
        EntryOf(outcome.components, strip(PreviousRow.name)).quantity =
            <<QuantityOfCell(PreviousRow.quantity)>>

\* the same for the cells that do not hold the number zero
NonZeroQuantityIsCellValue ==
    (AfterRow /\ IsComponentRow(PreviousRow)
       /\ (PreviousRow.quantity.kind = "int" => PreviousRow.quantity.value # 0)) =>
        EntryOf(outcome.components, strip(PreviousRow.name)).quantity =
            <<QuantityOfCell(PreviousRow.quantity)>>

(* Claims on the synonym table *)

\* C24: the synonym table is the table as written after any sequence of
\* calls of normalize, check_synonyms, extract_tokens, smart_material_match
\* and merge_all_data, and two calls of one function with the same
\* arguments in one session return the same result.
SynonymTableNeverChanges ==
    /\ synonym_table = MATERIAL_SYNONYMS
    /\ \A i \in DOMAIN session : \A j \in DOMAIN session :
          (session[i].fn = session[j].fn /\ session[i].args = session[j].args)
             => session[i].ret = session[j].ret

\* GRAPHITE against graf classified twice, a check_synonyms call made
\* by the first: both (true, "synonym")
SameCallTwiceReached ==
    /\ Len(session) = 2
    /\ session[1].fn = "smart_material_match"
    /\ session[2].fn = "smart_material_match"
    /\ session[1].args = <<M_GRAPHITE, M_graf>>
    /\ session[2].args = <<M_GRAPHITE, M_graf>>
    /\ session[1].ret = <<TRUE, "synonym">>
    /\ session[2].ret = <<TRUE, "synonym">>

(* Claims on merge_all_data, continued *)

\* the drawing rows whose description is absent, empty or whitespace only
BlankRows ==
    {i \in DOMAIN RowsIn : EmptyCell(Get(RowsIn[i], "description", <<>>))}

\* the manager categories matched by the drawing rows with a description
CategoriesUsed ==
    {find_matching_manager_column(strip(RowsIn[i].description),
                                  manager_materials)[1] :
        i \in DOMAIN RowsIn \ BlankRows} \ {None}

\* C25: merge_all_data leaves a drawing row with an empty or whitespace-only
\* description exactly as it was, without status, quantity, bom_material
\* or order_material, and such a row marks no manager category as used:
\* the categories appended as new rows are all those that no row with a
\* description matched.
BlankRowsUntouched ==
    (Merged /\ "table2" \in DOMAIN drawing) =>
        /\ \A i \in BlankRows :
              /\ RowsOut[i] = RowsIn[i]
              /\ DOMAIN RowsOut[i] \cap
                    {"status", "quantity", "bom_material", "order_material"} = {}
        /\ {RowsOut[i].description :
                i \in {j \in DOMAIN RowsOut : j > Len(RowsIn)}}
              = Keys(manager_materials) \ CategoriesUsed

\* a whitespace-only row and an empty one merged with a manager mapping of
\* four categories: both as they were, four new rows
BlankRowsReached ==
    /\ Merged
    /\ RowsIn = <<I_Blank, I_Empty>>
    /\ Len(manager_materials) = 4
    /\ bom_components # <<>>
    /\ RowsOut[1] = I_Blank
    /\ RowsOut[2] = I_Empty
    /\ Len(RowsOut) = 6

(* Claims on validate_bom_with_pdf, continued *)

\* a value that is null or the empty text
EmptyOrNull(value) == value = None \/ value = <<>>

\* C26: in validate_bom_with_pdf a gating field that is empty or null on
\* the components sheet's side or on the drawing's side yields no message,
\* whatever the value on the other side, and a components sheet whose size,
\* class and ends are all three empty or null is valid against every
\* drawing.
EmptyFieldPasses ==
    ReturnedFrom("validate_bom_with_pdf") =>
        /\ \A field \in {"SIZE", "ASME", "ENDS"} :
              (EmptyOrNull(FieldValues(field)[1]) \/ EmptyOrNull(FieldValues(field)[2]))
                 => MessagesAbout(outcome.value.errors, field) = 0
        /\ (\A field \in {"SIZE", "ASME", "ENDS"} : EmptyOrNull(FieldValues(field)[1]))
              => /\ outcome.value.valid
                 /\ outcome.value.errors = <<>>

\* a sheet without size, class or ends found valid against a drawing that
\* has all three
EmptySheetValidReached ==
    /\ ReturnedFrom("validate_bom_with_pdf")
    /\ arguments.bom_data.size = <<>>
    /\ arguments.bom_data.asme = None
    /\ arguments.bom_data.ends = <<>>
    /\ arguments.pdf_size = T_12_quoted
    /\ arguments.pdf_asme = T_ASME_600
    /\ arguments.pdf_ends = T_RF
    /\ outcome.value.valid

(* Claims on the request handler, continued *)

\* validation passed and parse_manager_sheet returned found = false
ManagerRowNotFound ==
    /\ Called("parse_manager_sheet")
    /\ "found" \in DOMAIN manager_data
    /\ ~manager_data.found

\* C27: in a run in which validation passed and parse_manager_sheet
\* returned found = false, merge_all_data is never called: the handler
\* answers success with the drawing data exactly as extracted, its
\* components without status, components-sheet quantity or material, and
\* the validation record carries manager_found = false.
ManagerNotFoundSkipsMerge ==
    ManagerRowNotFound =>
        /\ validation.valid
        /\ ~Called("merge_all_data")
        /\ merge_call = "none"
        /\ pdf_data = drawing
        /\ pc \in {"respond", "finally", "done"}
        /\ validation_info.manager_found = FALSE
        /\ pc \in {"finally", "done"} =>
              /\ response.success = TRUE
              /\ response.data = drawing
              /\ response.data = request.extraction
              /\ \A i \in DOMAIN response.data.table2 :
                    DOMAIN response.data.table2[i] \cap
                       {"status", "bom_material", "order_material"} = {}
              /\ response.validation.manager_found = FALSE

\* a finished run on a manager sheet without the 12" class 600 row: the
\* two drawing components returned as extracted
ManagerNotFoundReached ==
    /\ pc = "done"
    /\ ManagerRowNotFound
    /\ request.manager_workbook = ManagerWorkbookOther
    /\ validation.valid
    /\ response.success = TRUE
    /\ response.data.table2 = <<I_Body, I_Ball>>
    /\ response.validation.manager_found = FALSE
    /\ calls = <<"parse_drawing_pdf_ai", "parse_bom_sheet",
                 "validate_bom_with_pdf", "parse_manager_sheet">>
-----------------------------------------------------------------------------
(* Specifications *)

\* the variables of the classifier calls while another part runs
ClassifierIdle ==
    /\ material1 = <<>>
    /\ material2 = <<>>
    /\ call = "none"
    /\ ret = <<>>

\* the variables of the merge while another part runs
MergeIdle ==
    /\ drawing = [table1 |-> <<>>]
    /\ pdf_data = [table1 |-> <<>>]
    /\ bom_components = <<>>
    /\ manager_materials = <<>>
    /\ merge_call = "none"

\* the variables of the request handler while another part runs
PipelineIdle ==
    /\ request = <<>>
    /\ pc = "idle"
    /\ temp_files = {}
    /\ pdf_path = NoPath
    /\ bom_path = NoPath
    /\ manager_path = NoPath
    /\ bom_data = <<>>
    /\ validation = <<>>
    /\ manager_data = <<>>
    /\ validation_info = <<>>
    /\ response = <<>>
    /\ calls = <<>>

\* the variables of the function calls while another part runs
FunctionIdle ==
    /\ function = "none"
    /\ arguments = <<>>
    /\ outcome = <<>>

\* the synonym table and the session while another part runs
SessionIdle ==
    /\ synonym_table = MATERIAL_SYNONYMS
    /\ session = <<>>

InitClassifier == ClassifierInit /\ MergeIdle /\ PipelineIdle /\ FunctionIdle
    /\ SessionIdle

SpecClassifier == InitClassifier /\ [][ClassifierNext]_vars

InitMerge == MergeInit /\ ClassifierIdle /\ PipelineIdle /\ FunctionIdle
    /\ SessionIdle

SpecMerge == InitMerge /\ [][MergeNext]_vars

InitFunction == FunctionInit /\ ClassifierIdle /\ MergeIdle /\ PipelineIdle
    /\ SessionIdle

SpecFunction == InitFunction /\ [][FunctionNext]_vars

InitSession ==
    SessionInit /\ ClassifierIdle /\ MergeIdle /\ PipelineIdle /\ FunctionIdle

SpecSession == InitSession /\ [][SessionNext]_vars

InitPipeline == PipelineInit /\ ClassifierIdle /\ MergeIdle /\ FunctionIdle
    /\ SessionIdle

SpecPipeline == InitPipeline /\ [][PipelineNext]_vars

=============================================================================
